---- MODULE Spec2Model ----
(***************************************************************************)
(* A model of the NSDF writer (python/nsdf/nsdfwriter.py): the source      *)
(* mappings under /map, the stored arrays under /data, the time-axis       *)
(* datasets under /map/time and the model tree under /model/modeltree.     *)
(*                                                                         *)
(* The HDF5 file is one function h5 from paths to objects (groups and      *)
(* datasets).  Every handler of the writer is an operator from the file    *)
(* and the call's arguments to the file after the call and the exception   *)
(* raised ("ok" when none); an action applies one handler to h5.           *)
(***************************************************************************)
EXTENDS Naturals, Integers, Sequences, FiniteSets, TLC

VARIABLES
    dialect,    \* NSDFWriter.dialect, set by the constructor
    h5,         \* the file: path -> object
    tree,       \* the in-memory ModelComponent tree under modelroot: path -> uid
    last,       \* the last call made: its name and the exception it raised
    declared,   \* history: mapping path -> the id list given to the declare that created it
    hist,       \* history: array path -> the operations that succeeded on it, whether a batch
                \* listed its sources in another order than the mapping and, per source id,
                \* the samples and the sampling times the batches supplied, in call order
                \* (for the per-source datasets: the path of their group)
    tainted,    \* history: the datasets a failed call has changed
    calls       \* the add_uniform_data calls that threads of the process run side by side:
                \* thread -> where the call is, its batch and the column count it has read

vars == <<dialect, h5, tree, last, declared, hist, tainted, calls>>

\* the threads that call the writer, and their state when none has made its call
Threads == {1, 2}

NoCalls == [t \in Threads |-> [pc |-> "idle", b |-> <<>>, oldcolcount |-> 0, err |-> "ok", overlapped |-> FALSE]]

(***************************************************************************)
(* Bounds of the model.                                                    *)
(***************************************************************************)
MaxLen == 1     \* most samples one batch supplies for one source
MaxCols == 2    \* most samples kept for one source (calls that would exceed it are not made)
ChunkLen == 2   \* the same two bounds in the specifications of one layout, where the
RowLen == 3     \* batches are longer

Ids == {"a", "b"}           \* source identifiers
Pops == {"p"}               \* population names
Fields == {"f"}             \* data_object.name of the batches
DsNames == {"d1", "d2"}     \* names of the per-source datasets
TimeBase == 100             \* the sampling time of a sample v is TimeBase + v

(***************************************************************************)
(* Program constants.                                                      *)
(***************************************************************************)
NaN == -1        \* np.nan, the fill value of the NaN-padded arrays
ZeroFill == 0    \* the fill value of a dataset created without fillvalue
NoLimit == -2    \* maxshape entry None: the axis may grow without bound

UNIFORM == "uniform"
NONUNIFORM == "nonuniform"
EVENT == "event"
STATIC == "static"
SAMPLING_TYPES == {UNIFORM, NONUNIFORM, EVENT, STATIC}

ONED == "ONED"
VLEN == "VLEN"
NANPADDED == "NANPADDED"
NUREGULAR == "NUREGULAR"
Dialects == {ONED, VLEN, NANPADDED, NUREGULAR}

None == "None"              \* a missing unit or time unit
NullRef == <<>>             \* the null object reference

(***************************************************************************)
(* Sequences.                                                              *)
(***************************************************************************)
Range(s) == {s[i] : i \in DOMAIN s}

SeqsUpTo(S, n) == UNION {[1..k -> S] : k \in 0..n}

DistinctSeqs(S) == {s \in SeqsUpTo(S, Cardinality(S)) : Cardinality(Range(s)) = Len(s)}

Max(S) == CHOOSE x \in S : \A y \in S : y <= x

Pad(row, w, fill) == [j \in 1..w |-> IF j <= Len(row) THEN row[j] ELSE fill]

Take(row, w) == [j \in 1..w |-> row[j]]

(***************************************************************************)
(* The file.                                                               *)
(***************************************************************************)
NoAttrs == [k \in {} |-> ""]

Group == [kind |-> "group", attrs |-> NoAttrs]

Has(st, p) == p \in DOMAIN st

IsGroup(st, p) == Has(st, p) /\ st[p].kind = "group"

IsDataset(st, p) == Has(st, p) /\ st[p].kind = "dataset"

Put(st, p, obj) == IF p \in DOMAIN st THEN [st EXCEPT ![p] = obj] ELSE (p :> obj) @@ st

SetAttr(st, p, name, value) ==
    [st EXCEPT ![p].attrs = IF name \in DOMAIN @ THEN [@ EXCEPT ![name] = value] ELSE (name :> value) @@ @]

RequireGroup(st, p) == IF Has(st, p) THEN st ELSE Put(st, p, Group)

MapPath(stype, name) == <<"map", stype, name>>

MapPath1d(stype, popname, varname) == <<"map", stype, popname, varname>>

PopGroup(stype, popname) == <<"data", stype, popname>>

DataPath(stype, popname, name) == <<"data", stype, popname, name>>

TimePath(tsname) == <<"map", "time", tsname>>

NodePath(path) == <<"model", "modeltree">> \o path

Ok(st) == [st |-> st, err |-> "ok"]

Fail(st, e) == [st |-> st, err |-> e]

(***************************************************************************)
(* Datasets.  A 2-D dataset keeps its rows (data[i] is row i, all of one   *)
(* width); a 1-D dataset of variable-length elements keeps one sequence    *)
(* per element; a 1-D dataset keeps its elements.  maxcols is the maxshape *)
(* entry of the axis the writer resizes (NoLimit for None), fill the fill  *)
(* value of cells no write has reached, dims the attached dimension scales.*)
(***************************************************************************)
Dataset(ndim, vlen, compound, data, maxcols, fill) ==
    [kind |-> "dataset", ndim |-> ndim, vlen |-> vlen, compound |-> compound,
     data |-> data, maxcols |-> maxcols, fill |-> fill, attrs |-> NoAttrs, dims |-> {}]

Width(ds) == IF ds.ndim = 2 THEN Len(ds.data[1]) ELSE Len(ds.data)

AttachScale(st, p, dim, label, scale) ==
    Put(st, p, [st[p] EXCEPT !.dims = @ \cup {<<dim, label, scale>>}])

\* for src in source_ds: the ids of a mapping dataset, in stored order
SourceIds(ds) == IF ds.compound THEN [i \in DOMAIN ds.data |-> ds.data[i].source] ELSE ds.data

(***************************************************************************)
(* The model tree (model.py: ModelComponent, common_prefix).               *)
(***************************************************************************)
RootUid == "modeltree"

\* ModelComponent.get_id_path_dict: uid -> path, the root included
IdPathDict(tr) ==
    [uid \in {tr[p] : p \in DOMAIN tr} \cup {RootUid} |->
        IF uid = RootUid THEN <<"modeltree">>
        ELSE <<"modeltree">> \o (CHOOSE p \in DOMAIN tr : tr[p] = uid)]

IsPrefix(p, q) == Len(p) <= Len(q) /\ \A i \in 1..Len(p) : p[i] = q[i]

\* common_prefix: the longest path that is a prefix, component by component, of every path
common_prefix(paths) ==
    LET first == paths[1]
        ks == {k \in 0..Len(first) : \A i \in DOMAIN paths : IsPrefix(Take(first, k), paths[i])}
    IN Take(first, Max(ks))

\* a variant of _link_map_model that raises when the closest common ancestor has no group
_link_map_model_raising(st, tr, mapds, emptyNameErr) ==
    LET id_path_dict == IdPathDict(tr)
        idlist == SourceIds(st[mapds])
    IN  IF Cardinality(DOMAIN id_path_dict) > 1
        THEN IF \E i \in DOMAIN idlist : idlist[i] \notin DOMAIN id_path_dict
             THEN Fail(st, "KeyError")
             ELSE LET paths == [i \in DOMAIN idlist |-> id_path_dict[idlist[i]]]
                      prefix == Tail(common_prefix(paths))
                      source == NodePath(prefix)
                  IN  IF prefix = <<>>
                      THEN IF emptyNameErr = "KeyError" THEN Ok(st) ELSE Fail(st, emptyNameErr)
                      ELSE IF ~Has(st, source)
                      THEN Fail(st, "KeyError")
                      ELSE LET oldmap == IF "map" \in DOMAIN st[source].attrs
                                         THEN st[source].attrs["map"] ELSE <<>>
                               st1 == SetAttr(st, source, "map", Append(oldmap, mapds))
                               oldmodel == IF "map" \in DOMAIN st1[mapds].attrs
                                           THEN st1[mapds].attrs["map"] ELSE <<>>
                           IN  Ok(SetAttr(st1, mapds, "model", Append(oldmodel, source)))
        ELSE Ok(st)

\* a variant of _link_map_model that links the mapping to the parent of the closest
\* common ancestor when it has one
_link_map_model_parent(st, tr, mapds, emptyNameErr) ==
    LET id_path_dict == IdPathDict(tr)
        idlist == SourceIds(st[mapds])
    IN  IF Cardinality(DOMAIN id_path_dict) > 1
        THEN IF \E i \in DOMAIN idlist : idlist[i] \notin DOMAIN id_path_dict
             THEN Fail(st, "KeyError")
             ELSE LET paths == [i \in DOMAIN idlist |-> id_path_dict[idlist[i]]]
                      closest == Tail(common_prefix(paths))
                      prefix == IF Len(closest) > 1 THEN Take(closest, Len(closest) - 1) ELSE closest
                      source == NodePath(prefix)
                  IN  IF prefix = <<>>
                      THEN IF emptyNameErr = "KeyError" THEN Ok(st) ELSE Fail(st, emptyNameErr)
                      ELSE IF ~Has(st, source)
                      THEN Ok(st)
                      ELSE LET oldmap == IF "map" \in DOMAIN st[source].attrs
                                         THEN st[source].attrs["map"] ELSE <<>>
                               st1 == SetAttr(st, source, "map", Append(oldmap, mapds))
                               oldmodel == IF "map" \in DOMAIN st1[mapds].attrs
                                           THEN st1[mapds].attrs["map"] ELSE <<>>
                           IN  Ok(SetAttr(st1, mapds, "model", Append(oldmodel, source)))
        ELSE Ok(st)

\* a variant of _link_map_model that puts the new reference first in the node's list
_link_map_model_front(st, tr, mapds, emptyNameErr) ==
    LET id_path_dict == IdPathDict(tr)
        idlist == SourceIds(st[mapds])
    IN  IF Cardinality(DOMAIN id_path_dict) > 1
        THEN IF \E i \in DOMAIN idlist : idlist[i] \notin DOMAIN id_path_dict
             THEN Fail(st, "KeyError")
             ELSE LET paths == [i \in DOMAIN idlist |-> id_path_dict[idlist[i]]]
                      prefix == Tail(common_prefix(paths))
                      source == NodePath(prefix)
                  IN  IF prefix = <<>>
                      THEN IF emptyNameErr = "KeyError" THEN Ok(st) ELSE Fail(st, emptyNameErr)
                      ELSE IF ~Has(st, source)
                      THEN Ok(st)
                      ELSE LET oldmap == IF "map" \in DOMAIN st[source].attrs
                                         THEN st[source].attrs["map"] ELSE <<>>
                               st1 == SetAttr(st, source, "map", <<mapds>> \o oldmap)
                               oldmodel == IF "map" \in DOMAIN st1[mapds].attrs
                                           THEN st1[mapds].attrs["map"] ELSE <<>>
                           IN  Ok(SetAttr(st1, mapds, "model", Append(oldmodel, source)))
        ELSE Ok(st)

_link_map_model(st, tr, mapds, emptyNameErr) ==
    LET id_path_dict == IdPathDict(tr)
        idlist == SourceIds(st[mapds])
    IN  IF Cardinality(DOMAIN id_path_dict) > 1
        THEN IF \E i \in DOMAIN idlist : idlist[i] \notin DOMAIN id_path_dict
             THEN Fail(st, "KeyError")
             ELSE LET paths == [i \in DOMAIN idlist |-> id_path_dict[idlist[i]]]
                      prefix == Tail(common_prefix(paths))
                      source == NodePath(prefix)
                  IN  IF prefix = <<>>
                      THEN IF emptyNameErr = "KeyError" THEN Ok(st) ELSE Fail(st, emptyNameErr)
                      ELSE IF ~Has(st, source)
                      THEN Ok(st)
                      ELSE LET oldmap == IF "map" \in DOMAIN st[source].attrs
                                         THEN st[source].attrs["map"] ELSE <<>>
                               st1 == SetAttr(st, source, "map", Append(oldmap, mapds))
                               oldmodel == IF "map" \in DOMAIN st1[mapds].attrs
                                           THEN st1[mapds].attrs["map"] ELSE <<>>
                           IN  Ok(SetAttr(st1, mapds, "model", Append(oldmodel, source)))
        ELSE Ok(st)

\* add_model_component: the group of a component under its parent, with its uid
add_model_component(st, path, uid) ==
    SetAttr(RequireGroup(st, NodePath(path)), NodePath(path), "uid", uid)

\* self.modelroot.visit(write_absolute, self.model): every component of the tree is
\* written, a parent before its children
RECURSIVE WriteComponents(_, _, _)
WriteComponents(st, tr, todo) ==
    IF todo = {} THEN st
    ELSE LET path == CHOOSE q \in todo : \A q2 \in todo : Len(q) <= Len(q2)
         IN  WriteComponents(add_model_component(st, path, tr[path]), tr, todo \ {path})

\* a variant of add_modeltree that links a mapping of the file to the root of the tree
add_modeltree_linking(st, tr, path) ==
    LET tr2 == (path :> path[Len(path)]) @@ tr
        st2 == WriteComponents(add_model_component(st, <<>>, RootUid), tr2, DOMAIN tr2)
        maps == {p \in DOMAIN st2 : Len(p) >= 3 /\ p[1] = "map" /\ p[2] # "time" /\ st2[p].kind = "dataset"}
    IN  [tree |-> tr2,
         st |-> IF maps = {} THEN st2
                ELSE SetAttr(st2, CHOOSE p \in maps : TRUE, "model", <<NodePath(<<>>)>>)]

\* add_modeltree(root, target) for a root of one component: node.add_child(root), then
\* the visit, which starts at modelroot
add_modeltree(st, tr, path) ==
    LET tr2 == (path :> path[Len(path)]) @@ tr
    IN  [tree |-> tr2,
         st |-> WriteComponents(add_model_component(st, <<>>, RootUid), tr2, DOMAIN tr2)]

(***************************************************************************)
(* The declare operations.                                                 *)
(***************************************************************************)
MapDataset(idlist) == Dataset(1, FALSE, FALSE, idlist, Len(idlist), ZeroFill)

MapDataset1d(idlist) ==
    Dataset(1, FALSE, TRUE, [i \in DOMAIN idlist |-> [source |-> idlist[i], data |-> NullRef]],
            Len(idlist), ZeroFill)

\* base.create_dataset(name, ...) followed by _link_map_model(src_ds)
CreateMap(st, tr, path, ds, emptyNameErr) ==
    IF Has(st, path) THEN Fail(st, "Conflict")
    ELSE _link_map_model(Put(st, path, ds), tr, path, emptyNameErr)

add_uniform_ds(st, tr, dl, name, idlist, emptyNameErr) ==
    IF Len(idlist) = 0 THEN Fail(st, "EmptyInput")
    ELSE CreateMap(st, tr, MapPath(UNIFORM, name), MapDataset(idlist), emptyNameErr)

add_nonuniform_ds(st, tr, dl, popname, idlist, emptyNameErr) ==
    LET st1 == RequireGroup(st, <<"map", NONUNIFORM>>)
    IN  IF dl = ONED THEN Fail(st1, "DialectMismatch")
        ELSE IF ~(Len(idlist) > 0) THEN Fail(st1, "EmptyInput")
        ELSE CreateMap(st1, tr, MapPath(NONUNIFORM, popname), MapDataset(idlist), emptyNameErr)

\* grp = base.require_group(popname); grp.create_dataset(varname, ...); the rows; the link
CreateMap1d(st, tr, stype, popname, varname, idlist, emptyNameErr) ==
    IF IsDataset(st, MapPath(stype, popname)) THEN Fail(st, "TypeError")
    ELSE CreateMap(RequireGroup(st, MapPath(stype, popname)), tr,
                   MapPath1d(stype, popname, varname), MapDataset1d(idlist), emptyNameErr)

add_nonuniform_ds_1d(st, tr, dl, popname, varname, idlist, emptyNameErr) ==
    LET st1 == RequireGroup(st, <<"map", NONUNIFORM>>)
    IN  IF dl # ONED THEN Fail(st1, "DialectMismatch")
        ELSE IF ~(Len(idlist) > 0) THEN Fail(st1, "EmptyInput")
        ELSE CreateMap1d(st1, tr, NONUNIFORM, popname, varname, idlist, emptyNameErr)

\* a variant of add_event_ds that checks the dialect after it has created the mapping
add_event_ds_late_check(st, tr, dl, name, idlist, emptyNameErr) ==
    LET st1 == RequireGroup(st, <<"map", EVENT>>)
        r == CreateMap(st1, tr, MapPath(EVENT, name), MapDataset(idlist), emptyNameErr)
    IN  IF ~(Len(idlist) > 0) THEN Fail(st1, "EmptyInput")
        ELSE IF ~(dl = VLEN \/ dl = NANPADDED) THEN Fail(r.st, "DialectMismatch")
        ELSE r

add_event_ds(st, tr, dl, name, idlist, emptyNameErr) ==
    LET st1 == RequireGroup(st, <<"map", EVENT>>)
    IN  IF ~(Len(idlist) > 0) THEN Fail(st1, "EmptyInput")
        ELSE IF ~(dl = VLEN \/ dl = NANPADDED) THEN Fail(st1, "DialectMismatch")
        ELSE CreateMap(st1, tr, MapPath(EVENT, name), MapDataset(idlist), emptyNameErr)

add_event_ds_1d(st, tr, dl, popname, varname, idlist, emptyNameErr) ==
    LET st1 == RequireGroup(st, <<"map", EVENT>>)
    IN  IF ~(Len(idlist) > 0) THEN Fail(st1, "EmptyInput")
        ELSE IF ~(dl = ONED \/ dl = NUREGULAR) THEN Fail(st1, "DialectMismatch")
        ELSE CreateMap1d(st1, tr, EVENT, popname, varname, idlist, emptyNameErr)

\* a variant of add_static_ds without the check of the id list
add_static_ds_unchecked(st, tr, dl, popname, idlist, emptyNameErr) ==
    CreateMap(RequireGroup(st, <<"map", STATIC>>), tr,
              MapPath(STATIC, popname), MapDataset(idlist), emptyNameErr)

add_static_ds(st, tr, dl, popname, idlist, emptyNameErr) ==
    IF Len(idlist) = 0 THEN Fail(st, "EmptyInput")
    ELSE CreateMap(RequireGroup(st, <<"map", STATIC>>), tr,
                   MapPath(STATIC, popname), MapDataset(idlist), emptyNameErr)


(***************************************************************************)
(* The append operations on 2-D arrays with one column per sample:         *)
(* add_uniform_data, add_static_data, add_nonuniform_regular.              *)
(* A batch b has name (data_object.name, also its field), order            *)
(* (get_sources()), data (source -> samples), time (source -> sampling     *)
(* times), times (the shared sampling times), unit, tunit and dt.          *)
(***************************************************************************)
\* a variant of match_datasets that accepts a batch with extra sources
match_datasets_subset(hdfds, pydata) == hdfds \subseteq pydata

\* set([item for item in hdfds]) == set(pydata), on the sets of the two lists
match_datasets(hdfds, pydata) == hdfds = pydata

\* source_ds.name.rpartition('/')[-1]
PopName(source_ds) == source_ds[Len(source_ds)]

\* a variant of OrderedData that takes the chunks in the order the batch lists its sources
OrderedData_batch_order(st, source_ds, b) ==
    LET ids == SourceIds(st[source_ds]) IN [i \in DOMAIN ids |-> b.data[b.order[i]]]

\* [data_object.get_data(src) for src in source_ds]
OrderedData(st, source_ds, b) ==
    LET ids == SourceIds(st[source_ds]) IN [i \in DOMAIN ids |-> b.data[ids[i]]]

\* np.vstack raises unless all the rows have one length
Stackable(rows) == \A i, j \in DOMAIN rows : Len(rows[i]) = Len(rows[j])

CanResize(ds, n) == ds.maxcols = NoLimit \/ n <= ds.maxcols

\* a variant of AppendColumns that writes the new columns before the old ones
AppendColumns_front(st, path, data) ==
    Put(st, path, [st[path] EXCEPT !.data = [i \in DOMAIN @ |-> data[i] \o @[i]]])

\* dataset.resize(oldcolcount + data.shape[1], axis=1); dataset[:, oldcolcount:] = data
AppendColumns(st, path, data) ==
    Put(st, path, [st[path] EXCEPT !.data = [i \in DOMAIN @ |-> @[i] \o data[i]]])

\* the try branch of the three operations
GrowColumns(st, path, data) ==
    IF st[path].kind # "dataset" \/ st[path].ndim # 2 THEN Fail(st, "IndexError")
    ELSE IF ~CanResize(st[path], Width(st[path]) + Len(data[1])) THEN Fail(st, "ResizeError")
    ELSE Ok(AppendColumns(st, path, data))

MaxCol(fixed, n) == IF fixed THEN n ELSE NoLimit

\* create_dataset(..., data=data, maxshape=(data.shape[0], maxcol)) and the source scale
CreateArray2d(st, path, source_ds, data, fixed) ==
    AttachScale(Put(st, path, Dataset(2, FALSE, FALSE, data, MaxCol(fixed, Len(data[1])), ZeroFill)),
                path, 0, "source", source_ds)

\* a variant of add_uniform_data that writes tstart and dt on every call
add_uniform_data_restamped(st, dl, source_ds, b, tstart, fixed) ==
    LET popname == PopName(source_ds)
        st1 == RequireGroup(st, PopGroup(UNIFORM, popname))
        path == DataPath(UNIFORM, popname, b.name)
        data == OrderedData(st, source_ds, b)
    IN  IF ~match_datasets(Range(SourceIds(st[source_ds])), Range(b.order)) THEN Fail(st1, "SourceMismatch")
        ELSE IF ~Stackable(data) THEN Fail(st1, "ValueError")
        ELSE IF Has(st1, path)
             THEN LET r == GrowColumns(st1, path, data)
                  IN  IF r.err # "ok" THEN r
                      ELSE Ok(SetAttr(SetAttr(r.st, path, "tstart", tstart), path, "dt", b.dt))
        ELSE IF b.dt <= 0 THEN Fail(st1, "MissingMetadata")
        ELSE IF b.unit = None THEN Fail(st1, "MissingMetadata")
        ELSE IF b.tunit = None THEN Fail(st1, "MissingMetadata")
        ELSE LET st2 == CreateArray2d(st1, path, source_ds, data, fixed)
                 st3 == SetAttr(st2, path, "tstart", tstart)
                 st4 == SetAttr(st3, path, "dt", b.dt)
                 st5 == SetAttr(st4, path, "field", b.name)
                 st6 == SetAttr(st5, path, "unit", b.unit)
             IN  Ok(SetAttr(st6, path, "timeunit", b.tunit))

add_uniform_data(st, dl, source_ds, b, tstart, fixed) ==
    LET popname == PopName(source_ds)
        st1 == RequireGroup(st, PopGroup(UNIFORM, popname))
        path == DataPath(UNIFORM, popname, b.name)
        data == OrderedData(st, source_ds, b)
    IN  IF ~match_datasets(Range(SourceIds(st[source_ds])), Range(b.order)) THEN Fail(st1, "SourceMismatch")
        ELSE IF ~Stackable(data) THEN Fail(st1, "ValueError")
        ELSE IF Has(st1, path) THEN GrowColumns(st1, path, data)
        ELSE IF b.dt <= 0 THEN Fail(st1, "MissingMetadata")
        ELSE IF b.unit = None THEN Fail(st1, "MissingMetadata")
        ELSE IF b.tunit = None THEN Fail(st1, "MissingMetadata")
        ELSE LET st2 == CreateArray2d(st1, path, source_ds, data, fixed)
                 st3 == SetAttr(st2, path, "tstart", tstart)
                 st4 == SetAttr(st3, path, "dt", b.dt)
                 st5 == SetAttr(st4, path, "field", b.name)
                 st6 == SetAttr(st5, path, "unit", b.unit)
             IN  Ok(SetAttr(st6, path, "timeunit", b.tunit))

add_static_data(st, dl, source_ds, b, fixed) ==
    LET popname == PopName(source_ds)
        st1 == RequireGroup(st, PopGroup(STATIC, popname))
        path == DataPath(STATIC, popname, b.name)
        data == OrderedData(st, source_ds, b)
    IN  IF ~match_datasets(Range(SourceIds(st[source_ds])), Range(b.order)) THEN Fail(st1, "SourceMismatch")
        ELSE IF ~Stackable(data) THEN Fail(st1, "ValueError")
        ELSE IF Has(st1, path) THEN GrowColumns(st1, path, data)
        ELSE IF b.unit = None THEN Fail(st1, "MissingMetadata")
        ELSE LET st2 == CreateArray2d(st1, path, source_ds, data, fixed)
                 st3 == SetAttr(st2, path, "field", b.name)
             IN  Ok(SetAttr(st3, path, "unit", b.unit))

\* '{}_{}'.format(popname, data_object.name)
TsName(popname, name) == popname \o "_" \o name

\* time_dim.create_dataset(tsname, shape=(len(times),), data=times): no maxshape, so of fixed size
CreateTimes1d(st, tpath, times, tunit) ==
    SetAttr(Put(st, tpath, Dataset(1, FALSE, FALSE, times, Len(times), ZeroFill)),
            tpath, "unit", tunit)

\* a variant of add_nonuniform_regular that does not compare the sampling times with the columns
add_nonuniform_regular_unchecked(st, dl, source_ds, b, fixed) ==
    LET popname == PopName(source_ds)
        st1 == RequireGroup(st, PopGroup(NONUNIFORM, popname))
        path == DataPath(NONUNIFORM, popname, b.name)
        tpath == TimePath(TsName(popname, b.name))
        data == OrderedData(st, source_ds, b)
    IN  IF ~match_datasets(Range(SourceIds(st[source_ds])), Range(b.order)) THEN Fail(st1, "SourceMismatch")
        ELSE IF ~Stackable(data) THEN Fail(st1, "ValueError")
        ELSE IF Has(st1, path) THEN GrowColumns(st1, path, data)
        ELSE IF b.unit = None THEN Fail(st1, "MissingMetadata")
        ELSE IF b.tunit = None THEN Fail(st1, "MissingMetadata")
        ELSE LET st2 == CreateArray2d(st1, path, source_ds, data, fixed)
                 st3 == SetAttr(st2, path, "field", b.name)
                 st4 == SetAttr(st3, path, "unit", b.unit)
             IN  IF Has(st4, tpath) THEN Fail(st4, "Conflict")
                 ELSE Ok(AttachScale(CreateTimes1d(st4, tpath, b.times, b.tunit),
                                     path, 1, "time", tpath))

add_nonuniform_regular(st, dl, source_ds, b, fixed) ==
    LET popname == PopName(source_ds)
        st1 == RequireGroup(st, PopGroup(NONUNIFORM, popname))
        path == DataPath(NONUNIFORM, popname, b.name)
        tpath == TimePath(TsName(popname, b.name))
        data == OrderedData(st, source_ds, b)
    IN  IF ~match_datasets(Range(SourceIds(st[source_ds])), Range(b.order)) THEN Fail(st1, "SourceMismatch")
        ELSE IF ~Stackable(data) THEN Fail(st1, "ValueError")
        ELSE IF Len(data[1]) # Len(b.times) THEN Fail(st1, "ShapeMismatch")
        ELSE IF Has(st1, path) THEN GrowColumns(st1, path, data)
        ELSE IF b.unit = None THEN Fail(st1, "MissingMetadata")
        ELSE IF b.tunit = None THEN Fail(st1, "MissingMetadata")
        ELSE LET st2 == CreateArray2d(st1, path, source_ds, data, fixed)
                 st3 == SetAttr(st2, path, "field", b.name)
                 st4 == SetAttr(st3, path, "unit", b.unit)
             IN  IF Has(st4, tpath) THEN Fail(st4, "Conflict")
                 ELSE Ok(AttachScale(CreateTimes1d(st4, tpath, b.times, b.tunit),
                                     path, 1, "time", tpath))


(***************************************************************************)
(* The Ragged-Variable operations: add_nonuniform_vlen, add_event_vlen.    *)
(***************************************************************************)
\* a variant of ConcatElement that keeps only the new chunk in an element
ConcatElement_overwrite(st, path, i, chunk) ==
    LET ds == st[path]
    IN  IF ds.kind # "dataset" THEN Fail(st, "TypeError")
        ELSE IF ds.vlen THEN Ok(Put(st, path, [ds EXCEPT !.data[i] = chunk]))
        ELSE IF ds.ndim = 2 /\ chunk = <<>> THEN Ok(st)
        ELSE IF ds.ndim = 2 THEN Fail(st, "TypeError")
        ELSE Fail(st, "ValueError")

\* dataset[iii] = np.concatenate((dataset[iii], data)) on whatever dataset the name denotes:
\* an element of a variable-length dataset takes the longer sequence; a row of a 2-D
\* dataset takes only a sequence of its own width; a scalar element cannot be concatenated
ConcatElement(st, path, i, chunk) ==
    LET ds == st[path]
    IN  IF ds.kind # "dataset" THEN Fail(st, "TypeError")
        ELSE IF ds.vlen THEN Ok(Put(st, path, [ds EXCEPT !.data[i] = @ \o chunk]))
        ELSE IF ds.ndim = 2 /\ chunk = <<>> THEN Ok(st)
        ELSE IF ds.ndim = 2 THEN Fail(st, "TypeError")
        ELSE Fail(st, "ValueError")

VlenDataset(n, maxrows) == Dataset(1, TRUE, FALSE, [i \in 1..n |-> <<>>], maxrows, ZeroFill)

\* for iii, source in enumerate(source_ds): the rows from row i on; withTime tells
\* add_nonuniform_vlen (data and time) from add_event_vlen (data only)
RECURSIVE VlenRows(_, _, _, _, _, _, _)
VlenRows(st, path, tpath, ids, b, withTime, i) ==
    IF i > Len(ids) THEN Ok(st)
    ELSE LET r1 == ConcatElement(st, path, i, b.data[ids[i]])
             r2 == IF r1.err = "ok" /\ withTime
                   THEN ConcatElement(r1.st, tpath, i, b.time[ids[i]]) ELSE r1
         IN  IF r2.err # "ok" THEN r2
             ELSE VlenRows(r2.st, path, tpath, ids, b, withTime, i + 1)

add_nonuniform_vlen(st, dl, source_ds, b, fixed) ==
    IF dl # VLEN THEN Fail(st, "DialectMismatch")
    ELSE
    LET popname == PopName(source_ds)
        ids == SourceIds(st[source_ds])
        st1 == RequireGroup(st, PopGroup(NONUNIFORM, popname))
        path == DataPath(NONUNIFORM, popname, b.name)
        tpath == TimePath(TsName(popname, b.name))
    IN  IF ~match_datasets(Range(ids), Range(b.order)) THEN Fail(st1, "SourceMismatch")
        ELSE IF Has(st1, path) /\ Has(st1, tpath)
        THEN VlenRows(st1, path, tpath, ids, b, TRUE, 1)
        ELSE IF b.unit = None THEN Fail(st1, "MissingMetadata")
        ELSE IF b.tunit = None THEN Fail(st1, "MissingMetadata")
        ELSE IF Has(st1, path) THEN Fail(st1, "Conflict")
        ELSE LET st2 == Put(st1, path, VlenDataset(Len(ids), Len(ids)))
                 st3 == SetAttr(st2, path, "field", b.name)
                 st4 == SetAttr(st3, path, "unit", b.unit)
                 st5 == AttachScale(st4, path, 0, "source", source_ds)
             IN  IF Has(st5, tpath) THEN Fail(st5, "Conflict")
                 ELSE LET st6 == Put(st5, tpath,
                                     VlenDataset(Len(ids), MaxCol(fixed, Len(ids))))
                          st7 == AttachScale(st6, path, 0, "time", tpath)
                          st8 == SetAttr(st7, tpath, "unit", b.tunit)
                      IN  VlenRows(st8, path, tpath, ids, b, TRUE, 1)

add_event_vlen(st, dl, source_ds, b, fixed) ==
    IF dl # VLEN THEN Fail(st, "DialectMismatch")
    ELSE
    LET popname == PopName(source_ds)
        ids == SourceIds(st[source_ds])
        st1 == RequireGroup(st, PopGroup(EVENT, popname))
        path == DataPath(EVENT, popname, b.name)
    IN  IF ~match_datasets(Range(ids), Range(b.order)) THEN Fail(st1, "SourceMismatch")
        ELSE IF Has(st1, path) THEN VlenRows(st1, path, path, ids, b, FALSE, 1)
        ELSE IF b.unit = None THEN Fail(st1, "MissingMetadata")
        ELSE LET st2 == Put(st1, path, VlenDataset(Len(ids), MaxCol(fixed, Len(ids))))
                 st3 == SetAttr(st2, path, "field", b.name)
                 st4 == SetAttr(st3, path, "unit", b.unit)
                 st5 == AttachScale(st4, path, 0, "source", source_ds)
             IN  VlenRows(st5, path, path, ids, b, FALSE, 1)

(***************************************************************************)
(* The NaN-Padded operations: add_nonuniform_nan, add_event_nan.           *)
(***************************************************************************)
\* a variant of FirstNaN that starts every write after the last cell of the row
FirstNaN_end(row) == Len(row)

\* next(find(dataset[iii], np.isnan))[0][0], len(dataset[iii]) when no cell is NaN
FirstNaN(row) ==
    IF \E j \in DOMAIN row : row[j] = NaN
    THEN (CHOOSE j \in DOMAIN row : row[j] = NaN /\ \A k \in 1..(j - 1) : row[k] # NaN) - 1
    ELSE Len(row)

\* the rows of the dataset, one per element when it is 1-D
RowsOf(ds) == IF ds.ndim = 2 \/ ds.vlen THEN ds.data ELSE [i \in DOMAIN ds.data |-> <<ds.data[i]>>]

Starts(ds, n) == [i \in 1..n |-> FirstNaN(RowsOf(ds)[i])]

MaxOf(seq) == Max(Range(seq))

\* dataset.resize(size, 1): every row cut or filled to the new width
Resize2d(st, path, w) ==
    LET ds == st[path]
    IN  IF ds.kind # "dataset" THEN Fail(st, "TypeError")
        ELSE IF ds.ndim # 2 THEN Fail(st, "ValueError")
        ELSE IF ~CanResize(ds, w) THEN Fail(st, "ResizeError")
        ELSE Ok(Put(st, path, [ds EXCEPT !.data = [i \in DOMAIN @ |-> Pad(@[i], w, ds.fill)]]))

\* dataset[iii, start:end] = values, on rows of width >= end; one value is broadcast
\* over the slice, any other number of values than the slice holds is refused
WriteSlice(st, path, i, start, end, values) ==
    LET ds == st[path]
    IN  IF ds.kind # "dataset" \/ ds.ndim # 2 THEN Fail(st, "TypeError")
        ELSE IF Len(values) = end - start
        THEN Ok(Put(st, path, [ds EXCEPT !.data[i] =
                [j \in DOMAIN @ |-> IF j > start /\ j <= end THEN values[j - start] ELSE @[j]]]))
        ELSE IF Len(values) = 1
        THEN Ok(Put(st, path, [ds EXCEPT !.data[i] =
                [j \in DOMAIN @ |-> IF j > start /\ j <= end THEN values[1] ELSE @[j]]]))
        ELSE Fail(st, "TypeError")

RECURSIVE NanRows(_, _, _, _, _, _, _, _, _)
NanRows(st, path, tpath, ids, b, starts, ends, withTime, i) ==
    IF i > Len(ids) THEN Ok(st)
    ELSE LET r1 == WriteSlice(st, path, i, starts[i], ends[i], b.data[ids[i]])
             r2 == IF r1.err = "ok" /\ withTime
                   THEN WriteSlice(r1.st, tpath, i, starts[i], ends[i], b.time[ids[i]]) ELSE r1
         IN  IF r2.err # "ok" THEN r2
             ELSE NanRows(r2.st, path, tpath, ids, b, starts, ends, withTime, i + 1)

\* a variant of NanDataset with one row more than the mapping has sources
NanDataset_extra_row(n, w, maxcols) ==
    Dataset(2, FALSE, FALSE, [i \in 1..(n + 1) |-> [j \in 1..w |-> NaN]], maxcols, NaN)

NanDataset(n, w, maxcols) ==
    Dataset(2, FALSE, FALSE, [i \in 1..n |-> [j \in 1..w |-> NaN]], maxcols, NaN)

\* the except KeyError branch of add_nonuniform_nan, then its loop over the rows
CreateNonuniformNan(st, source_ds, ids, path, tpath, b, cols, fixed) ==
    IF b.unit = None THEN Fail(st, "MissingMetadata")
    ELSE IF b.tunit = None THEN Fail(st, "MissingMetadata")
    ELSE IF Has(st, path) THEN Fail(st, "Conflict")
    ELSE LET maxcols == MaxCol(fixed, MaxOf(cols))
             st2 == Put(st, path, NanDataset(Len(ids), MaxOf(cols), maxcols))
             st3 == SetAttr(st2, path, "field", b.name)
             st4 == SetAttr(st3, path, "unit", b.unit)
             st5 == AttachScale(st4, path, 0, "source", source_ds)
         IN  IF Has(st5, tpath) THEN Fail(st5, "Conflict")
             ELSE LET st6 == Put(st5, tpath, NanDataset(Len(ids), MaxOf(cols), maxcols))
                      st7 == AttachScale(st6, path, 1, "time", tpath)
                      st8 == SetAttr(st7, tpath, "unit", b.tunit)
                  IN  NanRows(st8, path, tpath, ids, b, [i \in DOMAIN ids |-> 0], cols, TRUE, 1)

add_nonuniform_nan(st, dl, source_ds, b, fixed) ==
    IF dl # NANPADDED THEN Fail(st, "DialectMismatch")
    ELSE
    LET popname == PopName(source_ds)
        ids == SourceIds(st[source_ds])
        st1 == RequireGroup(st, PopGroup(NONUNIFORM, popname))
        path == DataPath(NONUNIFORM, popname, b.name)
        tpath == TimePath(TsName(popname, b.name))
        cols == [i \in DOMAIN ids |-> Len(b.data[ids[i]])]
    IN  IF ~match_datasets(Range(ids), Range(b.order)) THEN Fail(st1, "SourceMismatch")
        ELSE IF Has(st1, path)
        THEN IF st1[path].kind # "dataset" THEN Fail(st1, "TypeError")
             ELSE LET starts == Starts(st1[path], Len(ids))
                      ends == [i \in DOMAIN ids |-> starts[i] + cols[i]]
                      r1 == Resize2d(st1, path, MaxOf(ends))
                  IN  IF r1.err # "ok" THEN r1
                      ELSE IF ~Has(r1.st, tpath)
                      THEN CreateNonuniformNan(r1.st, source_ds, ids, path, tpath, b, cols, fixed)
                      ELSE LET r2 == Resize2d(r1.st, tpath, MaxOf(ends))
                           IN  IF r2.err # "ok" THEN r2
                               ELSE NanRows(r2.st, path, tpath, ids, b, starts, ends, TRUE, 1)
        ELSE CreateNonuniformNan(st1, source_ds, ids, path, tpath, b, cols, fixed)

add_event_nan(st, dl, source_ds, b, fixed) ==
    IF dl # NANPADDED THEN Fail(st, "DialectMismatch")
    ELSE
    LET popname == PopName(source_ds)
        ids == SourceIds(st[source_ds])
        st1 == RequireGroup(st, PopGroup(EVENT, popname))
        path == DataPath(EVENT, popname, b.name)
        cols == [i \in DOMAIN ids |-> Len(b.data[ids[i]])]
    IN  IF ~match_datasets(Range(ids), Range(b.order)) THEN Fail(st1, "SourceMismatch")
        ELSE IF Has(st1, path)
        THEN IF st1[path].kind # "dataset" THEN Fail(st1, "TypeError")
             ELSE LET starts == Starts(st1[path], Len(ids))
                      ends == [i \in DOMAIN ids |-> starts[i] + cols[i]]
                      r1 == Resize2d(st1, path, MaxOf(ends))
                  IN  IF r1.err # "ok" THEN r1
                      ELSE NanRows(r1.st, path, path, ids, b, starts, ends, FALSE, 1)
        ELSE IF b.unit = None THEN Fail(st1, "MissingMetadata")
        ELSE LET st2 == Put(st1, path,
                            NanDataset(Len(ids), MaxOf(cols), MaxCol(fixed, MaxOf(cols))))
                 st3 == SetAttr(st2, path, "field", b.name)
                 st4 == SetAttr(st3, path, "unit", b.unit)
                 st5 == AttachScale(st4, path, 0, "source", source_ds)
             IN  NanRows(st5, path, path, ids, b, [i \in DOMAIN ids |-> 0], cols, FALSE, 1)


(***************************************************************************)
(* The Per-Source-Separate operations: add_nonuniform_1d, add_event_1d.    *)
(* source_name_dict is a function from source ids to dataset names.        *)
(***************************************************************************)
\* source_ds.name.split('/')[-2]
PopName1d(source_ds) == source_ds[Len(source_ds) - 1]

Keys(dict) == DOMAIN dict

DsetPath(stype, popname, name, dsetname) == <<"data", stype, popname, name, dsetname>>

\* '{}_{}_{}'.format(popname, data_object.name, dsetname)
TsName1d(popname, name, dsetname) == popname \o "_" \o name \o "_" \o dsetname

\* dset.resize((n,))
Resize1d(st, path, n) ==
    LET ds == st[path]
    IN  IF ~CanResize(ds, n) THEN Fail(st, "ResizeError")
        ELSE Ok(Put(st, path, [ds EXCEPT !.data = Pad(@, n, ds.fill)]))

\* dset[oldlen:] = values
WriteTail(st, path, oldlen, values) ==
    LET ds == st[path]
        n == Len(ds.data) - oldlen
    IN  IF Len(values) = n
        THEN Ok(Put(st, path, [ds EXCEPT !.data =
                [j \in DOMAIN @ |-> IF j > oldlen THEN values[j - oldlen] ELSE @[j]]]))
        ELSE IF Len(values) = 1
        THEN Ok(Put(st, path, [ds EXCEPT !.data =
                [j \in DOMAIN @ |-> IF j > oldlen THEN values[1] ELSE @[j]]]))
        ELSE Fail(st, "TypeError")

\* dset.dims[0]['time']: the scale attached under the label, NullRef when there is none
TimeScaleOf(ds) ==
    IF \E d \in ds.dims : d[1] = 0 /\ d[2] = "time"
    THEN (CHOOSE d \in ds.dims : d[1] = 0 /\ d[2] = "time")[3]
    ELSE NullRef

Dataset1d(data, fixed) == Dataset(1, FALSE, FALSE, data, MaxCol(fixed, Len(data)), ZeroFill)

\* source_ds[iii] = (source, dset.ref)
SetMapRow(st, source_ds, i, source, ref) ==
    Put(st, source_ds, [st[source_ds] EXCEPT !.data[i] = [source |-> source, data |-> ref]])

\* the except KeyError branch of the loop of add_nonuniform_1d
CreateNonuniform1d(st, source_ds, i, source, dpath, tpath, b, fixed) ==
    LET data == b.data[source]
        time == b.time[source]
    IN  IF b.unit = None THEN Fail(st, "MissingMetadata")
        ELSE IF b.tunit = None THEN Fail(st, "MissingMetadata")
        ELSE IF Has(st, dpath) THEN Fail(st, "Conflict")
        ELSE LET st2 == Put(st, dpath, Dataset1d(data, fixed))
                 st3 == SetAttr(st2, dpath, "unit", b.unit)
                 st4 == SetAttr(st3, dpath, "field", b.name)
                 st5 == SetAttr(st4, dpath, "source", source)
                 st6 == SetMapRow(st5, source_ds, i, source, dpath)
             IN  IF Has(st6, tpath) THEN Fail(st6, "Conflict")
                 ELSE IF Len(time) # Len(data) THEN Fail(st6, "ValueError")
                 ELSE LET st7 == Put(st6, tpath,
                                     Dataset(1, FALSE, FALSE, time, MaxCol(fixed, Len(data)), ZeroFill))
                          st8 == AttachScale(st7, dpath, 0, "time", tpath)
                      IN  Ok(SetAttr(st8, tpath, "unit", b.tunit))

\* one pass of the loop of add_nonuniform_1d
Nonuniform1dRow(st, source_ds, popname, i, source, b, source_name_dict, fixed) ==
    LET dsetname == source_name_dict[source]
        dpath == DsetPath(NONUNIFORM, popname, b.name, dsetname)
        tpath == TimePath(TsName1d(popname, b.name, dsetname))
        data == b.data[source]
    IN  IF Has(st, dpath) /\ TimeScaleOf(st[dpath]) # NullRef
        THEN LET oldlen == Len(st[dpath].data)
                 timescale == TimeScaleOf(st[dpath])
                 r1 == Resize1d(st, dpath, oldlen + Len(data))
                 r2 == IF r1.err = "ok" THEN WriteTail(r1.st, dpath, oldlen, data) ELSE r1
                 r3 == IF r2.err = "ok" THEN Resize1d(r2.st, timescale, oldlen + Len(data)) ELSE r2
             IN  IF r3.err = "ok" THEN WriteTail(r3.st, timescale, oldlen, b.time[source]) ELSE r3
        ELSE CreateNonuniform1d(st, source_ds, i, source, dpath, tpath, b, fixed)

RECURSIVE Nonuniform1dRows(_, _, _, _, _, _, _, _)
Nonuniform1dRows(st, source_ds, popname, ids, b, source_name_dict, fixed, i) ==
    IF i > Len(ids) THEN Ok(st)
    ELSE LET r == Nonuniform1dRow(st, source_ds, popname, i, ids[i], b, source_name_dict, fixed)
         IN  IF r.err # "ok" THEN r
             ELSE Nonuniform1dRows(r.st, source_ds, popname, ids, b, source_name_dict, fixed, i + 1)

add_nonuniform_1d(st, dl, source_ds, b, source_name_dict, fixed) ==
    IF dl # ONED THEN Fail(st, "DialectMismatch")
    ELSE
    LET popname == PopName1d(source_ds)
        ids == SourceIds(st[source_ds])
        st1 == RequireGroup(st, PopGroup(NONUNIFORM, popname))
        datagrp == DataPath(NONUNIFORM, popname, b.name)
    IN  IF ~match_datasets(Keys(source_name_dict), Range(b.order)) THEN Fail(st1, "SourceMismatch")
        ELSE IF ~match_datasets(Range(ids), Keys(source_name_dict)) THEN Fail(st1, "SourceMismatch")
        ELSE IF IsDataset(st1, datagrp) THEN Fail(st1, "TypeError")
        ELSE Nonuniform1dRows(SetAttr(RequireGroup(st1, datagrp), datagrp, "source", source_ds),
                              source_ds, popname, ids, b, source_name_dict, fixed, 1)

\* one pass of the loop of add_event_1d
Event1dRow(st, source_ds, popname, i, source, b, source_name_dict, fixed) ==
    IF source \notin DOMAIN b.data \/ source \notin Keys(source_name_dict)
    THEN Fail(st, "KeyError")
    ELSE
    LET dsetname == source_name_dict[source]
        dpath == DsetPath(EVENT, popname, b.name, dsetname)
        data == b.data[source]
    IN  IF Has(st, dpath)
        THEN LET oldlen == Len(st[dpath].data)
                 r1 == Resize1d(st, dpath, oldlen + Len(data))
             IN  IF r1.err = "ok" THEN WriteTail(r1.st, dpath, oldlen, data) ELSE r1
        ELSE IF b.unit = None THEN Fail(st, "MissingMetadata")
        ELSE LET st2 == Put(st, dpath, Dataset1d(data, fixed))
                 st3 == SetAttr(st2, dpath, "unit", b.unit)
                 st4 == SetAttr(st3, dpath, "field", b.name)
                 st5 == SetAttr(st4, dpath, "source", source)
             IN  Ok(SetMapRow(st5, source_ds, i, source, dpath))

RECURSIVE Event1dRows(_, _, _, _, _, _, _, _)
Event1dRows(st, source_ds, popname, ids, b, source_name_dict, fixed, i) ==
    IF i > Len(ids) THEN Ok(st)
    ELSE LET r == Event1dRow(st, source_ds, popname, i, ids[i], b, source_name_dict, fixed)
         IN  IF r.err # "ok" THEN r
             ELSE Event1dRows(r.st, source_ds, popname, ids, b, source_name_dict, fixed, i + 1)

add_event_1d(st, dl, source_ds, b, source_name_dict, fixed) ==
    IF ~(dl = ONED \/ dl = NUREGULAR) THEN Fail(st, "DialectMismatch")
    ELSE
    LET popname == PopName1d(source_ds)
        ids == SourceIds(st[source_ds])
        st1 == RequireGroup(st, PopGroup(EVENT, popname))
        datagrp == DataPath(EVENT, popname, b.name)
    IN  IF ~match_datasets(Keys(source_name_dict), Range(b.order)) THEN Fail(st1, "SourceMismatch")
        ELSE IF IsDataset(st1, datagrp) THEN Fail(st1, "TypeError")
        ELSE Event1dRows(SetAttr(RequireGroup(st1, datagrp), datagrp, "source", source_ds),
                         source_ds, popname, ids, b, source_name_dict, fixed, 1)


(***************************************************************************)
(* The calls made on the writer: the arguments are drawn from small sets.  *)
(***************************************************************************)
IdLists == DistinctSeqs(Ids)                 \* the empty list included

LinkPops == {"p", "q"}                        \* population names where mappings are linked

\* id lists of components of the tree: under one parent, under a grandparent, one alone,
\* a component and its parent, with nothing but the root in common
LinkIdLists == {<<"a", "b">>, <<"a", "c">>, <<"a">>, <<"B", "a">>, <<"a", "d">>}

FewIdLists == {<<"a">>, <<"b", "a">>}         \* one row, and two rows not in the order of Tag

Orders == IdLists \ {<<>>}                   \* get_sources() of a batch

\* The writer reads no sample but to tell NaN from the rest, so the samples of the calls
\* are made to tell where they come from: the j-th sample supplied for a source, counting
\* the successful calls for the array, is Sample(source, j), its sampling time TimeBase more
Tag(source) == IF source = "a" THEN 1 ELSE 2

Sample(source, j) == 10 * Tag(source) + j

Good == [unit |-> "mV", tunit |-> "ms", dt |-> 1]

NoUnit == [unit |-> None, tunit |-> "ms", dt |-> 1]

NoTunit == [unit |-> "mV", tunit |-> None, dt |-> 1]

NoDt == [unit |-> "mV", tunit |-> "ms", dt |-> 0]

\* at most one source of a batch has a time chunk of another length than its data chunk
Skews(sources) == {sk \in [sources -> {-1, 0, 1}] : Cardinality({x \in sources : sk[x] # 0}) <= 1}

NoSkew(sources) == [x \in sources |-> 0]

\* a batch before its samples are numbered: a sample is Tag(source) or NaN, a sampling
\* time TimeBase; there are as many shared sampling times as the longest chunk has
\* samples, and extra more
Batch(name, order, data, skew, extra, meta) ==
    [name |-> name, order |-> order, data |-> data,
     time |-> [x \in DOMAIN data |->
                  [j \in 1..Max({0, Len(data[x]) + skew[x]}) |-> TimeBase]],
     times |-> [j \in 1..(Max({Len(data[x]) : x \in DOMAIN data}) + extra) |-> TimeBase],
     unit |-> meta.unit, tunit |-> meta.tunit, dt |-> meta.dt]

\* the chunks of a batch: lens gives each chunk's length
TaggedData(lens) == [x \in DOMAIN lens |-> [j \in 1..lens[x] |-> Tag(x)]]

TaggedChunks(sources) == {TaggedData(lens) : lens \in [sources -> 0..MaxLen]}

LongChunks(sources) == {TaggedData(lens) : lens \in [sources -> 0..ChunkLen]}

\* chunks in which any sample may be NaN
NanChunks(sources) ==
    {data \in [sources -> SeqsUpTo({Tag(x) : x \in sources} \cup {NaN}, ChunkLen)] :
        \A x \in sources : Range(data[x]) \subseteq {Tag(x), NaN}}

\* the batches with the given chunks per source set and the given metadata: skewed with
\* sampling times per source that may differ in length from the data, Extra the numbers
\* of shared sampling times beyond the samples
BatchesOf(Chunks(_), M, skewed, Extra) ==
    UNION {UNION {{Batch(name, order, data, skew, extra, meta) :
                      name \in Fields, meta \in M, extra \in Extra,
                      skew \in IF skewed THEN Skews(Range(order)) ELSE {NoSkew(Range(order))}} :
                  data \in Chunks(Range(order))} :
           order \in Orders}

UniformBatches == BatchesOf(TaggedChunks, {Good, NoUnit, NoTunit, NoDt}, FALSE, {0})

PlainBatches == BatchesOf(TaggedChunks, {Good, NoUnit, NoTunit}, FALSE, {0})

SharedTimeBatches == BatchesOf(TaggedChunks, {Good, NoUnit, NoTunit}, FALSE, {0, 1})

TimedBatches == BatchesOf(TaggedChunks, {Good, NoUnit, NoTunit}, FALSE, {0})

LongBatches == BatchesOf(LongChunks, {Good}, FALSE, {0})

NanBatches == BatchesOf(NanChunks, {Good}, FALSE, {0})

\* a batch that lacks metadata is tried with fixed = False only
Fixed(b) == IF b.unit = None \/ b.tunit = None \/ b.dt <= 0 THEN {FALSE} ELSE BOOLEAN

\* an operation the dialect does not support is tried with one batch only
Tried(B, supported) == IF supported THEN B ELSE {CHOOSE b \in B : b.unit # None /\ b.tunit # None}

NameDicts == UNION {[Range(o) -> DsNames] : o \in Orders}

\* the dicts that name the dataset of "a" d1 and that of "b" d2
OwnNameDicts == {[x \in Range(o) |-> IF x = "a" THEN "d1" ELSE "d2"] : o \in Orders}

(***************************************************************************)
(* The state after construction, and the history a call leaves.            *)
(***************************************************************************)
\* the groups the constructor creates in a new file
NewFile ==
    [p \in {<<"data">>, <<"model">>, <<"map">>, <<"map", "time">>, <<"model", "modeltree">>}
            \cup {<<"data", stype>> : stype \in SAMPLING_TYPES}
            \cup {<<"map", stype>> : stype \in SAMPLING_TYPES} |-> Group]

Init ==
    /\ dialect \in Dialects
    /\ h5 = NewFile
    /\ tree = [p \in {} |-> ""]
    /\ last = [op |-> "__init__", err |-> "ok"]
    /\ declared = [p \in {} |-> <<>>]
    /\ hist = [p \in {} |-> <<>>]
    /\ tainted = {}
    /\ calls = NoCalls

IsMapPath(p) == Len(p) >= 3 /\ p[1] = "map" /\ p[2] # "time"

IsStored(p) == (Len(p) >= 4 /\ p[1] = "data") \/ (Len(p) = 3 /\ p[1] = "map" /\ p[2] = "time")

\* the mapping datasets of a sampling type: the plain ones, and those with dataset slots
Maps(st, stype) == {p \in DOMAIN st : Len(p) = 3 /\ p[1] = "map" /\ p[2] = stype /\ IsDataset(st, p)}

Maps1d(st, stype) == {p \in DOMAIN st : Len(p) = 4 /\ p[1] = "map" /\ p[2] = stype /\ IsDataset(st, p)}

\* the stored datasets (arrays, per-source datasets, time axes) a call created or changed
Changed(st, st2) == {p \in DOMAIN st2 : IsStored(p) /\ IsDataset(st2, p) /\ (~Has(st, p) \/ st[p] # st2[p])}

\* the most samples a dataset keeps for one source
Size(ds) == IF ds.ndim = 2 THEN Width(ds)
            ELSE IF ds.vlen THEN Max({0} \cup {Len(ds.data[i]) : i \in DOMAIN ds.data})
            ELSE Len(ds.data)

Widest(st) == Max({0} \cup {Size(st[p]) : p \in {q \in DOMAIN st : IsStored(q) /\ IsDataset(st, q)}})

\* the sampling types other than stype hold no mapping: one run works on one sampling type
OnlyType(st, stype) == \A p \in DOMAIN st : IsMapPath(p) => p[2] = stype

Declare(op, stype, r, idlist) ==
    /\ OnlyType(h5, stype)
    /\ h5' = r.st
    /\ last' = [op |-> op, err |-> r.err]
    /\ declared' = [p \in DOMAIN declared \cup {q \in DOMAIN r.st : IsMapPath(q) /\ IsDataset(r.st, q) /\ ~Has(h5, q)} |->
                       IF p \in DOMAIN declared THEN declared[p] ELSE idlist]
    /\ UNCHANGED <<dialect, tree, hist, tainted, calls>>

\* the components a model tree may hold, each with its name for uid
TreePaths == {<<"A">>, <<"A", "B">>, <<"A", "B", "a">>, <<"A", "B", "b">>, <<"A", "c">>, <<"d">>}

Parent(path) == Take(path, Len(path) - 1)

\* the components that can be added: those whose parent the tree holds
Addable == {q \in TreePaths \ DOMAIN tree : Parent(q) \in DOMAIN tree \cup {<<>>}}

NoHist(b) ==
    [ops |-> {}, reordered |-> FALSE,
     data |-> [x \in DOMAIN b.data |-> <<>>], time |-> [x \in DOMAIN b.data |-> <<>>]]

\* what was supplied per source, with the chunks of one more batch
Supplied(old, chunks) ==
    [x \in DOMAIN old \cup DOMAIN chunks |->
        (IF x \in DOMAIN old THEN old[x] ELSE <<>>) \o (IF x \in DOMAIN chunks THEN chunks[x] ELSE <<>>)]

\* the history of the array at path after a successful call op with batch b on mapping
\* source_ds: reordered tells that some batch listed its sources in another order than the
\* mapping
HistAfter(op, path, source_ds, b) ==
    LET old == IF path \in DOMAIN hist THEN hist[path] ELSE NoHist(b)
        new == [old EXCEPT !.ops = @ \cup {op},
                           !.reordered = @ \/ b.order # SourceIds(h5[source_ds]),
                           !.data = Supplied(@, b.data),
                           !.time = Supplied(@, b.time)]
    IN  [p \in DOMAIN hist \cup {path} |-> IF p = path THEN new ELSE hist[p]]

\* the samples the successful calls supplied for a source and those of batch b are at most cap
Room(path, b, cap) ==
    \A x \in DOMAIN b.data :
        Len(b.data[x]) + (IF path \in DOMAIN hist /\ x \in DOMAIN hist[path].data
                          THEN Len(hist[path].data[x]) ELSE 0) <= cap

\* the batch t with its samples and sampling times numbered after those the successful
\* calls supplied for the array at path
Stamp(t, path) ==
    LET done == [x \in DOMAIN t.data |->
                    IF path \in DOMAIN hist /\ x \in DOMAIN hist[path].data
                    THEN Len(hist[path].data[x]) ELSE 0]
        most == Max({0} \cup {done[x] : x \in DOMAIN t.data})
    IN  [t EXCEPT !.data = [x \in DOMAIN t.data |-> [j \in DOMAIN t.data[x] |->
                               IF t.data[x][j] = NaN THEN NaN ELSE Sample(x, done[x] + j)]],
                  !.time = [x \in DOMAIN t.time |-> [j \in DOMAIN t.time[x] |->
                               TimeBase + Sample(x, done[x] + j)]],
                  !.times = [j \in DOMAIN t.times |-> TimeBase + most + j]]

\* a call of an append operation: calls that would supply or keep more than cap samples for
\* one source are not made
AppendCall(op, path, source_ds, b, r, cap) ==
    /\ Room(path, b, cap)
    /\ Widest(r.st) <= cap
    /\ h5' = r.st
    /\ last' = [op |-> op, err |-> r.err]
    /\ hist' = IF r.err = "ok" THEN HistAfter(op, path, source_ds, b) ELSE hist
    /\ tainted' = IF r.err = "ok" THEN tainted ELSE tainted \cup Changed(h5, r.st)
    /\ UNCHANGED <<dialect, tree, declared, calls>>

(***************************************************************************)
(* The actions: one per operation of the writer.                           *)
(***************************************************************************)
EmptyNameErrs == {"KeyError", "ValueError"}  \* what self.modeltree[''] may raise

AddUniformDs(N, L, E) ==
    \E name \in N, idlist \in L, e \in E :
        Declare("add_uniform_ds", UNIFORM, add_uniform_ds(h5, tree, dialect, name, idlist, e), idlist)

AddNonuniformDs(N, L, E) ==
    \E name \in N, idlist \in L, e \in E :
        Declare("add_nonuniform_ds", NONUNIFORM,
                add_nonuniform_ds(h5, tree, dialect, name, idlist, e), idlist)

AddNonuniformDs1d(N, L, E) ==
    \E name \in N, varname \in Fields, idlist \in L, e \in E :
        Declare("add_nonuniform_ds_1d", NONUNIFORM,
                add_nonuniform_ds_1d(h5, tree, dialect, name, varname, idlist, e), idlist)

AddEventDs(N, L, E) ==
    \E name \in N, idlist \in L, e \in E :
        Declare("add_event_ds", EVENT, add_event_ds(h5, tree, dialect, name, idlist, e), idlist)

AddEventDs1d(N, L, E) ==
    \E name \in N, varname \in Fields, idlist \in L, e \in E :
        Declare("add_event_ds_1d", EVENT,
                add_event_ds_1d(h5, tree, dialect, name, varname, idlist, e), idlist)

AddStaticDs(N, L, E) ==
    \E name \in N, idlist \in L, e \in E :
        Declare("add_static_ds", STATIC, add_static_ds(h5, tree, dialect, name, idlist, e), idlist)

AddModeltree ==
    \E path \in Addable :
        LET r == add_modeltree(h5, tree, path)
        IN  /\ tree' = r.tree
            /\ h5' = r.st
            /\ last' = [op |-> "add_modeltree", err |-> "ok"]
            /\ UNCHANGED <<dialect, declared, hist, tainted, calls>>

\* ModelComponent.add_child on a component of the tree the writer holds: the tree grows,
\* the file is not written
AddChild ==
    \E path \in Addable :
        /\ tree' = (path :> path[Len(path)]) @@ tree
        /\ last' = [op |-> "add_child", err |-> "ok"]
        /\ UNCHANGED <<dialect, h5, declared, hist, tainted, calls>>

AddUniformData(B, F, cap) ==
    \E source_ds \in Maps(h5, UNIFORM), t \in B :
        LET path == DataPath(UNIFORM, PopName(source_ds), t.name)
            b == Stamp(t, path)
        IN  \E fixed \in F \cap Fixed(b) :
                AppendCall("add_uniform_data", path, source_ds, b,
                           add_uniform_data(h5, dialect, source_ds, b, 0, fixed), cap)

AddStaticData(B, F, cap) ==
    \E source_ds \in Maps(h5, STATIC), t \in B :
        LET path == DataPath(STATIC, PopName(source_ds), t.name)
            b == Stamp(t, path)
        IN  \E fixed \in F \cap Fixed(b) :
                AppendCall("add_static_data", path, source_ds, b,
                           add_static_data(h5, dialect, source_ds, b, fixed), cap)

AddNonuniformRegular(B, F, cap) ==
    \E source_ds \in Maps(h5, NONUNIFORM), t \in B :
        LET path == DataPath(NONUNIFORM, PopName(source_ds), t.name)
            b == Stamp(t, path)
        IN  \E fixed \in F \cap Fixed(b) :
                AppendCall("add_nonuniform_regular", path, source_ds, b,
                           add_nonuniform_regular(h5, dialect, source_ds, b, fixed), cap)

AddNonuniformVlen(B, F, cap) ==
    \E source_ds \in Maps(h5, NONUNIFORM), t \in B :
        LET path == DataPath(NONUNIFORM, PopName(source_ds), t.name)
            b == Stamp(t, path)
        IN  \E fixed \in F \cap Fixed(b) :
                AppendCall("add_nonuniform_vlen", path, source_ds, b,
                           add_nonuniform_vlen(h5, dialect, source_ds, b, fixed), cap)

AddNonuniformNan(B, F, cap) ==
    \E source_ds \in Maps(h5, NONUNIFORM), t \in B :
        LET path == DataPath(NONUNIFORM, PopName(source_ds), t.name)
            b == Stamp(t, path)
        IN  \E fixed \in F \cap Fixed(b) :
                AppendCall("add_nonuniform_nan", path, source_ds, b,
                           add_nonuniform_nan(h5, dialect, source_ds, b, fixed), cap)

AddEventVlen(B, F, cap) ==
    \E source_ds \in Maps(h5, EVENT), t \in B :
        LET path == DataPath(EVENT, PopName(source_ds), t.name)
            b == Stamp(t, path)
        IN  \E fixed \in F \cap Fixed(b) :
                AppendCall("add_event_vlen", path, source_ds, b,
                           add_event_vlen(h5, dialect, source_ds, b, fixed), cap)

AddEventNan(B, F, cap) ==
    \E source_ds \in Maps(h5, EVENT), t \in B :
        LET path == DataPath(EVENT, PopName(source_ds), t.name)
            b == Stamp(t, path)
        IN  \E fixed \in F \cap Fixed(b) :
                AppendCall("add_event_nan", path, source_ds, b,
                           add_event_nan(h5, dialect, source_ds, b, fixed), cap)

AddNonuniform1d(B, ND, F, cap) ==
    \E source_ds \in Maps1d(h5, NONUNIFORM), t \in B, snd \in ND :
        LET path == DataPath(NONUNIFORM, PopName1d(source_ds), t.name)
            b == Stamp(t, path)
        IN  \E fixed \in F \cap Fixed(b) :
                AppendCall("add_nonuniform_1d", path, source_ds, b,
                           add_nonuniform_1d(h5, dialect, source_ds, b, snd, fixed), cap)

AddEvent1d(B, ND, F, cap) ==
    \E source_ds \in Maps1d(h5, EVENT), t \in B, snd \in ND :
        LET path == DataPath(EVENT, PopName1d(source_ds), t.name)
            b == Stamp(t, path)
        IN  \E fixed \in F \cap Fixed(b) :
                AppendCall("add_event_1d", path, source_ds, b,
                           add_event_1d(h5, dialect, source_ds, b, snd, fixed), cap)

Next ==
    \/ AddUniformDs(Pops, IdLists, {"KeyError"})
    \/ AddNonuniformDs(Pops, IdLists, {"KeyError"})
    \/ AddNonuniformDs1d(Pops, IdLists, {"KeyError"})
    \/ AddEventDs(Pops, IdLists, {"KeyError"})
    \/ AddEventDs1d(Pops, IdLists, {"KeyError"})
    \/ AddStaticDs(Pops, IdLists, {"KeyError"})
    \/ AddUniformData(UniformBatches, BOOLEAN, MaxCols)
    \/ AddStaticData(PlainBatches, BOOLEAN, MaxCols)
    \/ AddNonuniformRegular(SharedTimeBatches, BOOLEAN, MaxCols)
    \/ AddNonuniformVlen(Tried(TimedBatches, dialect = VLEN), BOOLEAN, MaxCols)
    \/ AddNonuniformNan(Tried(TimedBatches, dialect = NANPADDED), BOOLEAN, MaxCols)
    \/ AddEventVlen(Tried(PlainBatches, dialect = VLEN), BOOLEAN, MaxCols)
    \/ AddEventNan(Tried(PlainBatches, dialect = NANPADDED), BOOLEAN, MaxCols)
    \/ AddNonuniform1d(Tried(TimedBatches, dialect = ONED), OwnNameDicts, BOOLEAN, MaxCols)
    \/ AddEvent1d(Tried(PlainBatches, dialect \in {ONED, NUREGULAR}), OwnNameDicts, BOOLEAN, MaxCols)

Spec == Init /\ [][Next]_vars

\* the Regular fixed-step layout alone, with longer batches and rows
NextUniform ==
    \/ AddUniformDs(Pops, IdLists, {"KeyError"})
    \/ AddUniformData(LongBatches, BOOLEAN, RowLen)

SpecUniform == Init /\ [][NextUniform]_vars

\* the Ragged-Variable layout alone, with longer batches and rows
NextVlen ==
    \/ AddNonuniformDs(Pops, IdLists, {"KeyError"})
    \/ AddEventDs(Pops, IdLists, {"KeyError"})
    \/ AddNonuniformVlen(LongBatches, {FALSE}, RowLen)
    \/ AddEventVlen(LongBatches, {FALSE}, RowLen)

InitVlen == Init /\ dialect = VLEN

SpecVlen == InitVlen /\ [][NextVlen]_vars

\* the NaN-Padded layout alone, with longer batches and rows, and samples that are NaN
NextNan ==
    \/ AddNonuniformDs(Pops, FewIdLists, {"KeyError"})
    \/ AddEventDs(Pops, FewIdLists, {"KeyError"})
    \/ AddNonuniformNan(NanBatches, {FALSE}, RowLen)
    \/ AddEventNan(NanBatches, {FALSE}, RowLen)

InitNan == Init /\ dialect = NANPADDED

SpecNan == InitNan /\ [][NextNan]_vars

\* the model tree and the declares that link their mapping to it
NextLink ==
    \/ AddModeltree
    \/ AddChild
    \/ AddUniformDs(LinkPops, LinkIdLists, EmptyNameErrs)
    \/ AddEventDs1d(LinkPops, LinkIdLists, EmptyNameErrs)

InitLink == Init /\ dialect = ONED

SpecLink == InitLink /\ [][NextLink]_vars


(***************************************************************************)
(* Two threads of one process that each call add_uniform_data once on the  *)
(* array of one population and field.  The writer takes no lock: a call is *)
(* three accesses to the file, the read of the column count, the resize    *)
(* and the write of the new columns, and the accesses of the two calls may *)
(* come in any order.                                                      *)
(***************************************************************************)
RaceMap == MapPath(UNIFORM, "p")

RacePath == DataPath(UNIFORM, "p", "f")

\* the batch b with its samples marked as those of thread t (0: the creating call)
RaceBatch(t, b) ==
    [b EXCEPT !.data = [x \in DOMAIN b.data |-> [j \in DOMAIN b.data[x] |-> 100 * t + Sample(x, j)]]]

RaceIdLists == {<<"a">>, <<"a", "b">>}

\* the batches of the calls: as many samples for every source
RaceBatches == {b \in LongBatches : \A x, y \in DOMAIN b.data : Len(b.data[x]) = Len(b.data[y])}

\* the file after add_uniform_ds('p', idlist) and the add_uniform_data that creates the array
RaceFile(idlist, b) ==
    add_uniform_data(add_uniform_ds(NewFile, [p \in {} |-> ""], ONED, "p", idlist, "KeyError").st,
                     ONED, RaceMap, RaceBatch(0, b), 0, FALSE)

InitRace ==
    /\ dialect = ONED
    /\ \E idlist \in RaceIdLists : \E b \in RaceBatches :
           /\ b.order = idlist
           /\ RaceFile(idlist, b).err = "ok"
           /\ h5 = RaceFile(idlist, b).st
           /\ declared = (RaceMap :> idlist)
           /\ hist = (RacePath :> [ops |-> {"add_uniform_data"}, reordered |-> FALSE,
                                   data |-> RaceBatch(0, b).data, time |-> b.time])
    /\ tree = [p \in {} |-> ""]
    /\ last = [op |-> "add_uniform_data", err |-> "ok"]
    /\ tainted = {}
    /\ calls = NoCalls

\* a step of thread t: it overlaps the call of another thread that has read the column
\* count and has not yet written
Step(t, pc, b, oldcolcount, err) ==
    calls' = [calls EXCEPT ![t] = [pc |-> pc, b |-> b, oldcolcount |-> oldcolcount, err |-> err,
                                   overlapped |-> \/ calls[t].overlapped
                                                  \/ \E u \in Threads \ {t} : calls[u].pc \in {"resize", "write"}]]

\* the call up to oldcolcount = dataset.shape[1]
ReadCount(t) ==
    /\ calls[t].pc = "idle"
    /\ \E t0 \in RaceBatches :
           LET b == RaceBatch(t, t0)
           IN  IF ~match_datasets(Range(SourceIds(h5[RaceMap])), Range(b.order))
               THEN Step(t, "done", b, 0, "SourceMismatch")
               ELSE Step(t, "resize", b, Width(h5[RacePath]), "ok")
    /\ last' = [op |-> "add_uniform_data", err |-> "ok"]
    /\ UNCHANGED <<dialect, h5, tree, declared, hist, tainted>>

\* dataset.resize(oldcolcount + data.shape[1], axis=1)
ResizeColumns(t) ==
    /\ calls[t].pc = "resize"
    /\ LET c == calls[t]
           data == OrderedData(h5, RaceMap, c.b)
           r == Resize2d(h5, RacePath, c.oldcolcount + Len(data[1]))
       IN  /\ h5' = r.st
           /\ Step(t, IF r.err = "ok" THEN "write" ELSE "done", c.b, c.oldcolcount, r.err)
    /\ UNCHANGED <<dialect, tree, last, declared, hist, tainted>>

\* a variant of WriteFrom that writes the columns from the first column of the array on
WriteFrom_first(st, path, oldcolcount, data) ==
    LET ds == st[path]
        count == Width(ds)
        n == Len(data[1])
    IN  IF n = count \/ n = 1
        THEN Ok(Put(st, path, [ds EXCEPT !.data = [i \in DOMAIN @ |-> [j \in DOMAIN @[i] |->
                    IF n = 1 THEN data[i][1] ELSE data[i][j]]]]))
        ELSE Fail(st, "TypeError")

\* dataset[:, oldcolcount:] = data: the columns from oldcolcount to the width the array
\* has now take the data when it has as many columns, or one column, which is broadcast;
\* data of any other shape is refused
WriteFrom(st, path, oldcolcount, data) ==
    LET ds == st[path]
        count == Width(ds) - oldcolcount
        n == Len(data[1])
    IN  IF n = count \/ n = 1
        THEN Ok(Put(st, path, [ds EXCEPT !.data = [i \in DOMAIN @ |-> [j \in DOMAIN @[i] |->
                    IF j <= oldcolcount THEN @[i][j]
                    ELSE IF n = 1 THEN data[i][1] ELSE data[i][j - oldcolcount]]]]))
        ELSE Fail(st, "TypeError")

WriteColumns(t) ==
    /\ calls[t].pc = "write"
    /\ LET c == calls[t]
           r == WriteFrom(h5, RacePath, c.oldcolcount, OrderedData(h5, RaceMap, c.b))
       IN  /\ h5' = r.st
           /\ Step(t, "done", c.b, c.oldcolcount, r.err)
           /\ last' = [op |-> "add_uniform_data", err |-> r.err]
    /\ UNCHANGED <<dialect, tree, declared, hist, tainted>>

NextRace == \E t \in Threads : ReadCount(t) \/ ResizeColumns(t) \/ WriteColumns(t)

SpecRace == InitRace /\ [][NextRace]_vars

(***************************************************************************)
(* What the claims speak of.                                               *)
(***************************************************************************)
\* the Stored Arrays kept as one dataset, and the per-source datasets
Arrays(st) == {p \in DOMAIN st : Len(p) = 4 /\ p[1] = "data" /\ IsDataset(st, p)}

Datasets1d(st) == {p \in DOMAIN st : Len(p) = 5 /\ p[1] = "data" /\ IsDataset(st, p)}

\* the mapping attached to an array as the scale of its rows
MappingOf(st, p) == (CHOOSE d \in st[p].dims : d[1] = 0 /\ d[2] = "source")[3]

\* the ids of the rows of an array, in row order
RowIds(st, p) == SourceIds(st[MappingOf(st, p)])

\* the cells of a row that are no samples: the NaN padding of a NaN-padded array
Padding(ds) == IF ds.fill = NaN THEN {NaN} ELSE {}

\* the stored datasets of a file
Stored(st) == {p \in DOMAIN st : IsStored(p) /\ IsDataset(st, p)}

\* the batches of all the runs, and the batches whose sources are not those of a mapping
AllBatches == UniformBatches \cup SharedTimeBatches

Mismatching(st, source_ds) == {b \in AllBatches : Range(b.order) # Range(SourceIds(st[source_ds]))}

\* a call that fails and leaves every stored dataset as it was
Refused(st, r) == r.err # "ok" /\ Changed(st, r.st) = {} /\ \A p \in Stored(st) : Has(r.st, p)

C2_MismatchRefused ==
    /\ \A m \in Maps(h5, UNIFORM) : \A b \in Mismatching(h5, m), fixed \in BOOLEAN :
           Refused(h5, add_uniform_data(h5, dialect, m, b, 0, fixed))
    /\ \A m \in Maps(h5, STATIC) : \A b \in Mismatching(h5, m), fixed \in BOOLEAN :
           Refused(h5, add_static_data(h5, dialect, m, b, fixed))
    /\ \A m \in Maps(h5, NONUNIFORM) : \A b \in Mismatching(h5, m), fixed \in BOOLEAN :
           /\ Refused(h5, add_nonuniform_regular(h5, dialect, m, b, fixed))
           /\ Refused(h5, add_nonuniform_vlen(h5, dialect, m, b, fixed))
           /\ Refused(h5, add_nonuniform_nan(h5, dialect, m, b, fixed))
    /\ \A m \in Maps(h5, EVENT) : \A b \in Mismatching(h5, m), fixed \in BOOLEAN :
           /\ Refused(h5, add_event_vlen(h5, dialect, m, b, fixed))
           /\ Refused(h5, add_event_nan(h5, dialect, m, b, fixed))
    /\ \A m \in Maps1d(h5, NONUNIFORM) : \A b \in Mismatching(h5, m), snd \in NameDicts, fixed \in BOOLEAN :
           Refused(h5, add_nonuniform_1d(h5, dialect, m, b, snd, fixed))

\* a batch of other sources was refused while an array of the mapping existed
C2_Witness ==
    /\ last.err = "SourceMismatch"
    /\ last.op \in {"add_uniform_data", "add_nonuniform_regular", "add_nonuniform_1d", "add_nonuniform_vlen",
                    "add_nonuniform_nan", "add_event_vlen", "add_event_nan", "add_static_data"}
    /\ Stored(h5) # {}

(***************************************************************************)
(* C3: after a population of n sources is declared and k add_uniform_data  *)
(* calls with c1..ck columns succeeded for one field, the array has n rows *)
(* of c1+...+ck columns, and the row of every source is what the calls     *)
(* supplied for it, in call order: the columns of call j follow those of   *)
(* the calls before it, which stay as they were.                           *)
(***************************************************************************)
C3_UniformColumnsAppended ==
    \A p \in Arrays(h5) \ tainted : p[2] = UNIFORM =>
        LET ids == RowIds(h5, p)
            rows == h5[p].data
        IN  /\ Len(rows) = Len(ids)
            /\ \A i \in DOMAIN ids : rows[i] = hist[p].data[ids[i]]

\* an array of two rows that took more columns than one call supplies
C3_Witness ==
    /\ last = [op |-> "add_uniform_data", err |-> "ok"]
    /\ \E p \in Arrays(h5) \ tainted :
           /\ p[2] = UNIFORM
           /\ Len(RowIds(h5, p)) = 2
           /\ h5[p].maxcols = NoLimit
           /\ Width(h5[p]) > ChunkLen
           /\ \E i \in 1..2 : h5[p].data[i][1] # h5[p].data[i][Width(h5[p])]

(***************************************************************************)
(* C4 as stated: in a NaN-padded array, the row of every source is what    *)
(* the successful add_nonuniform_nan or add_event_nan calls supplied for   *)
(* it, in call order, followed by NaN cells only, and the array is as wide *)
(* as its longest row of samples, whatever the lengths and the values of   *)
(* the samples.                                                            *)
(***************************************************************************)
\* the row of every source is its samples in call order, then NaN, in an array as wide
\* as the most samples a source has
PaddedRows(p) ==
    LET ids == RowIds(h5, p)
        rows == h5[p].data
        w == Max({Len(hist[p].data[ids[i]]) : i \in DOMAIN ids})
    IN  /\ Width(h5[p]) = w
        /\ \A i \in DOMAIN ids : rows[i] = Pad(hist[p].data[ids[i]], w, NaN)

C4_AnySamples == \A p \in Arrays(h5) \ tainted : PaddedRows(p)

(***************************************************************************)
(* The same for the arrays whose batches supplied no sample that is NaN.   *)
(***************************************************************************)
NoNaNSupplied(p) == \A x \in DOMAIN hist[p].data : NaN \notin Range(hist[p].data[x])

C4_SamplesNotNaN == \A p \in Arrays(h5) \ tainted : NoNaNSupplied(p) => PaddedRows(p)

\* two rows that took their samples in more than one call, one of them shorter than the other
C4_Witness ==
    /\ last.err = "ok" /\ last.op \in {"add_nonuniform_nan", "add_event_nan"}
    /\ \E p \in Arrays(h5) \ tainted :
           /\ NoNaNSupplied(p)
           /\ Len(RowIds(h5, p)) = 2
           /\ Width(h5[p]) > ChunkLen
           /\ \E i \in 1..2 : h5[p].data[i][1] # NaN /\ h5[p].data[i][Width(h5[p])] = NaN

(***************************************************************************)
(* C5: after k successful add_nonuniform_vlen or add_event_vlen calls for  *)
(* one population and field, the row of every source is the chunks the k   *)
(* calls supplied for it, in call order, and for add_nonuniform_vlen the   *)
(* time row of the source is the k time chunks in the same order.          *)
(***************************************************************************)
C5_VlenRowsConcatenated ==
    \A p \in Arrays(h5) \ tainted :
        LET ids == RowIds(h5, p)
            t == TimeScaleOf(h5[p])
        IN  /\ \A i \in DOMAIN ids : h5[p].data[i] = hist[p].data[ids[i]]
            /\ p[2] = NONUNIFORM =>
                   /\ t # NullRef /\ IsDataset(h5, t)
                   /\ t \notin tainted => \A i \in DOMAIN ids : h5[t].data[i] = hist[p].time[ids[i]]

\* two rows of different lengths, one of them longer than one call supplies
C5_Witness ==
    /\ last = [op |-> "add_nonuniform_vlen", err |-> "ok"]
    /\ \E p \in Arrays(h5) \ tainted :
           /\ Len(RowIds(h5, p)) = 2
           /\ Len(h5[p].data[1]) > ChunkLen
           /\ Len(h5[p].data[2]) \in 1..ChunkLen
           /\ h5[p].data[1][1] # h5[p].data[1][2]

(***************************************************************************)
(* C6: an append operation called for an array that does not exist yet,    *)
(* with a batch that lacks required metadata (the unit; the time unit for  *)
(* the operations that store sampling times; dt > 0 for add_uniform_data), *)
(* fails and leaves the file with no new array, no new time dataset and no *)
(* new attribute on any object.                                            *)
(***************************************************************************)
\* a call that fails and creates no stored dataset and no attribute
NothingWritten(st, r) ==
    /\ r.err # "ok"
    /\ \A p \in Stored(r.st) : Has(st, p)
    /\ \A p \in DOMAIN r.st : DOMAIN r.st[p].attrs \subseteq (IF Has(st, p) THEN DOMAIN st[p].attrs ELSE {})

NoUnits(b) == b.unit = None

NoTimeUnits(b) == b.unit = None \/ b.tunit = None

\* none of the datasets a dict names exists
NoneOf(st, stype, m, b, snd) ==
    \A x \in DOMAIN snd : ~Has(st, DsetPath(stype, PopName1d(m), b.name, snd[x]))

C6_MetadataRequired ==
    /\ \A m \in Maps(h5, UNIFORM) : \A b \in AllBatches, fixed \in BOOLEAN :
           (NoTimeUnits(b) \/ b.dt <= 0) /\ ~Has(h5, DataPath(UNIFORM, PopName(m), b.name))
               => NothingWritten(h5, add_uniform_data(h5, dialect, m, b, 0, fixed))
    /\ \A m \in Maps(h5, STATIC) : \A b \in AllBatches, fixed \in BOOLEAN :
           NoUnits(b) /\ ~Has(h5, DataPath(STATIC, PopName(m), b.name))
               => NothingWritten(h5, add_static_data(h5, dialect, m, b, fixed))
    /\ \A m \in Maps(h5, NONUNIFORM) : \A b \in AllBatches, fixed \in BOOLEAN :
           NoTimeUnits(b) /\ ~Has(h5, DataPath(NONUNIFORM, PopName(m), b.name))
               => /\ NothingWritten(h5, add_nonuniform_regular(h5, dialect, m, b, fixed))
                  /\ NothingWritten(h5, add_nonuniform_vlen(h5, dialect, m, b, fixed))
                  /\ NothingWritten(h5, add_nonuniform_nan(h5, dialect, m, b, fixed))
    /\ \A m \in Maps(h5, EVENT) : \A b \in AllBatches, fixed \in BOOLEAN :
           NoUnits(b) /\ ~Has(h5, DataPath(EVENT, PopName(m), b.name))
               => /\ NothingWritten(h5, add_event_vlen(h5, dialect, m, b, fixed))
                  /\ NothingWritten(h5, add_event_nan(h5, dialect, m, b, fixed))
    /\ \A m \in Maps1d(h5, NONUNIFORM) : \A b \in AllBatches, snd \in NameDicts, fixed \in BOOLEAN :
           NoTimeUnits(b) /\ NoneOf(h5, NONUNIFORM, m, b, snd)
               => NothingWritten(h5, add_nonuniform_1d(h5, dialect, m, b, snd, fixed))
    /\ \A m \in Maps1d(h5, EVENT) : \A b \in AllBatches, snd \in NameDicts, fixed \in BOOLEAN :
           NoUnits(b) /\ NoneOf(h5, EVENT, m, b, snd)
               => NothingWritten(h5, add_event_1d(h5, dialect, m, b, snd, fixed))

(***************************************************************************)
(* C7: every Stored Array kept as one dataset (uniform, shared-time,       *)
(* ragged, NaN-padded, static) has as many rows as the mapping attached to *)
(* it has sources, as many as the declare of the mapping was given,        *)
(* whatever appends were made after its creation, failed ones included.    *)
(***************************************************************************)
C7_RowCountIsMappingLength ==
    \A p \in Arrays(h5) :
        /\ Len(h5[p].data) = Len(RowIds(h5, p))
        /\ Len(h5[p].data) = Len(declared[MappingOf(h5, p)])

\* an array of two rows that was appended to after its creation
C7_Witness ==
    /\ last.err = "ok"
    /\ \E p \in Arrays(h5) :
           /\ p \in DOMAIN hist /\ hist[p].ops # {}
           /\ Len(declared[MappingOf(h5, p)]) = 2
           /\ Size(h5[p]) > MaxLen

(***************************************************************************)
(* C8 as stated: in every dialect, the samples of an array or per-source   *)
(* dataset created with fixed = True are never changed by a later call.    *)
(***************************************************************************)
\* the dataset was created with fixed = True: the axis the appends grow has a limit (for
\* the Ragged-Variable arrays with sampling times, fixed sets the limit of the time dataset)
CreatedFixed(st, p) ==
    IF st[p].vlen /\ p[2] = NONUNIFORM
    THEN LET t == TimeScaleOf(st[p]) IN t # NullRef /\ IsDataset(st, t) /\ st[t].maxcols # NoLimit
    ELSE st[p].maxcols # NoLimit

C8_FixedNeverGrows ==
    [][\A p \in Arrays(h5) \cup Datasets1d(h5) :
           CreatedFixed(h5, p) => Has(h5', p) /\ h5'[p].data = h5[p].data]_vars

(***************************************************************************)
(* C9: when a declare creates a mapping M whose sources all are components *)
(* of the model tree, with a closest common ancestor other than the root   *)
(* whose group exists in the file, then after the declare the 'map' list   *)
(* of that group holds M, the 'model' list of M holds that group and no    *)
(* other, and no other group of the tree holds M in its 'map' list.        *)
(***************************************************************************)
\* the path of the component with the uid, under the root of the tree
UidPath(tr, uid) == CHOOSE q \in DOMAIN tr : tr[q] = uid

Resolved(tr, idlist) == \A i \in DOMAIN idlist : \E q \in DOMAIN tr : tr[q] = idlist[i]

\* the deepest path that is an ancestor of, or is, the component of every id
ClosestCommonAncestor(tr, idlist) ==
    CHOOSE q \in {Take(UidPath(tr, idlist[1]), k) : k \in 0..Len(UidPath(tr, idlist[1]))} :
        /\ \A i \in DOMAIN idlist : IsPrefix(q, UidPath(tr, idlist[i]))
        /\ \A q2 \in DOMAIN tr : (\A i \in DOMAIN idlist : IsPrefix(q2, UidPath(tr, idlist[i])))
               => Len(q2) <= Len(q)

Refs(st, p, name) == IF name \in DOMAIN st[p].attrs THEN Range(st[p].attrs[name]) ELSE {}

Nodes(st) == {p \in DOMAIN st : Len(p) >= 2 /\ p[1] = "model" /\ p[2] = "modeltree"}

LinkedAt(st, M, node) ==
    /\ M \in Refs(st, node, "map")
    /\ Refs(st, M, "model") = {node}
    /\ \A n \in Nodes(st) \ {node} : M \notin Refs(st, n, "map")

C9_LinkedToCommonAncestor ==
    [][\A M \in DOMAIN declared' \ DOMAIN declared :
           LET idlist == declared'[M]
           IN  Resolved(tree, idlist) =>
                   LET q == ClosestCommonAncestor(tree, idlist)
                   IN  q # <<>> /\ Has(h5, NodePath(q)) => LinkedAt(h5', M, NodePath(q))]_vars

\* a second mapping of the components a and b is linked to /A/B, which holds both
C9_Witness ==
    /\ last.err = "ok" /\ last.op \in {"add_uniform_ds", "add_event_ds_1d"}
    /\ \E M \in DOMAIN declared :
           /\ declared[M] = <<"a", "b">>
           /\ Refs(h5, M, "model") = {NodePath(<<"A", "B">>)}
           /\ Len(h5[NodePath(<<"A", "B">>)].attrs["map"]) = 2
           /\ M = h5[NodePath(<<"A", "B">>)].attrs["map"][2]

(***************************************************************************)
(* C10: each of add_uniform_ds, add_nonuniform_ds, add_nonuniform_ds_1d,   *)
(* add_event_ds, add_event_ds_1d and add_static_ds, called with an empty   *)
(* id list, fails and adds no dataset and no group to the file; no mapping *)
(* was declared with an empty id list.                                     *)
(***************************************************************************)
\* a call that fails and adds no object to the file
NothingAdded(st, r) == r.err # "ok" /\ DOMAIN r.st = DOMAIN st

C10_EmptyIdListRefused ==
    /\ \A name \in Pops, e \in EmptyNameErrs :
           /\ NothingAdded(h5, add_uniform_ds(h5, tree, dialect, name, <<>>, e))
           /\ NothingAdded(h5, add_nonuniform_ds(h5, tree, dialect, name, <<>>, e))
           /\ NothingAdded(h5, add_event_ds(h5, tree, dialect, name, <<>>, e))
           /\ NothingAdded(h5, add_static_ds(h5, tree, dialect, name, <<>>, e))
           /\ \A varname \in Fields :
                  /\ NothingAdded(h5, add_nonuniform_ds_1d(h5, tree, dialect, name, varname, <<>>, e))
                  /\ NothingAdded(h5, add_event_ds_1d(h5, tree, dialect, name, varname, <<>>, e))
    /\ \A m \in DOMAIN declared : declared[m] # <<>>

\* a declare with an empty id list was refused in a file that holds a mapping
C10_Witness ==
    /\ last.err = "EmptyInput"
    /\ last.op \in {"add_uniform_ds", "add_nonuniform_ds", "add_nonuniform_ds_1d",
                    "add_event_ds", "add_event_ds_1d", "add_static_ds"}
    /\ DOMAIN declared # {}

(***************************************************************************)
(* C11 as stated: once a mapping is declared for a sampling type and a     *)
(* population name, every declare for the same type and name with another  *)
(* set of sources fails, leaves the stored ids as they were, and leaves no *)
(* two mappings of that type and name with different sets of sources; the  *)
(* declares with dataset slots, which also take a variable name, included. *)
(***************************************************************************)
VarNames == {"f", "g"}      \* varname of the declares with dataset slots

\* the id lists with another set of sources than the mapping m stores
OtherSets(st, m) == {idlist \in IdLists : Range(idlist) # Range(SourceIds(st[m]))}

\* the mappings of the sampling type and population name of m
SameName(st, m) == {q \in DOMAIN st : IsMapPath(q) /\ IsDataset(st, q) /\ q[2] = m[2] /\ q[3] = m[3]}

\* the declare failed, m is as it was, and the mappings of its name have one set of sources
Redeclared(st, r, m) ==
    /\ r.err # "ok"
    /\ Has(r.st, m) /\ r.st[m] = st[m]
    /\ \A q \in SameName(r.st, m) : Range(SourceIds(r.st[q])) = Range(SourceIds(st[m]))

\* the declares of mappings kept as one dataset per population name
C11_PlainRedeclareRefused ==
    /\ \A m \in Maps(h5, UNIFORM) : \A idlist \in OtherSets(h5, m), e \in EmptyNameErrs :
           Redeclared(h5, add_uniform_ds(h5, tree, dialect, m[3], idlist, e), m)
    /\ \A m \in Maps(h5, NONUNIFORM) : \A idlist \in OtherSets(h5, m), e \in EmptyNameErrs :
           Redeclared(h5, add_nonuniform_ds(h5, tree, dialect, m[3], idlist, e), m)
    /\ \A m \in Maps(h5, EVENT) : \A idlist \in OtherSets(h5, m), e \in EmptyNameErrs :
           Redeclared(h5, add_event_ds(h5, tree, dialect, m[3], idlist, e), m)
    /\ \A m \in Maps(h5, STATIC) : \A idlist \in OtherSets(h5, m), e \in EmptyNameErrs :
           Redeclared(h5, add_static_ds(h5, tree, dialect, m[3], idlist, e), m)

\* the declares with dataset slots
Slots1dRedeclareRefused ==
    /\ \A m \in Maps1d(h5, NONUNIFORM) :
           \A idlist \in OtherSets(h5, m), varname \in VarNames, e \in EmptyNameErrs :
               Redeclared(h5, add_nonuniform_ds_1d(h5, tree, dialect, m[3], varname, idlist, e), m)
    /\ \A m \in Maps1d(h5, EVENT) :
           \A idlist \in OtherSets(h5, m), varname \in VarNames, e \in EmptyNameErrs :
               Redeclared(h5, add_event_ds_1d(h5, tree, dialect, m[3], varname, idlist, e), m)

C11_RedeclareRefused == C11_PlainRedeclareRefused /\ Slots1dRedeclareRefused

(***************************************************************************)
(* C12 as stated: an array that took its samples through the operation of  *)
(* one layout refuses every append made through the operation of another   *)
(* layout of its sampling type, by this writer or by a writer opened on    *)
(* the file with any other dialect, and it and its time dataset stay as    *)
(* they were.                                                              *)
(***************************************************************************)
\* the batches for the field of the array at p
BatchesFor(p) == {b \in AllBatches : b.name = p[4]}

\* the call failed, and the array at p and the time dataset of its name are as they were
LayoutKept(st, r, p) ==
    LET t == TimePath(TsName(p[3], p[4]))
    IN  /\ r.err # "ok"
        /\ Has(r.st, p) /\ r.st[p] = st[p]
        /\ Has(st, t) => Has(r.st, t) /\ r.st[t] = st[t]

\* the operation is not one the array at p took samples through
Foreign(p, op) == op \notin hist[p].ops

C12_OtherLayoutRejected ==
    \A p \in Arrays(h5) \cap DOMAIN hist :
        LET m == MappingOf(h5, p)
        IN  \A dl \in Dialects, b \in BatchesFor(p), fixed \in BOOLEAN :
                /\ p[2] = NONUNIFORM /\ Foreign(p, "add_nonuniform_regular")
                       => LayoutKept(h5, add_nonuniform_regular(h5, dl, m, b, fixed), p)
                /\ p[2] = NONUNIFORM /\ Foreign(p, "add_nonuniform_vlen")
                       => LayoutKept(h5, add_nonuniform_vlen(h5, dl, m, b, fixed), p)
                /\ p[2] = NONUNIFORM /\ Foreign(p, "add_nonuniform_nan")
                       => LayoutKept(h5, add_nonuniform_nan(h5, dl, m, b, fixed), p)
                /\ p[2] = EVENT /\ Foreign(p, "add_event_vlen")
                       => LayoutKept(h5, add_event_vlen(h5, dl, m, b, fixed), p)
                /\ p[2] = EVENT /\ Foreign(p, "add_event_nan")
                       => LayoutKept(h5, add_event_nan(h5, dl, m, b, fixed), p)

(***************************************************************************)
(* C13: an operation called on a writer of a dialect it does not support   *)
(* (add_nonuniform_1d and add_nonuniform_ds_1d unless ONED, the vlen       *)
(* operations unless VLEN, the nan operations unless NANPADDED,            *)
(* add_event_1d and add_event_ds_1d unless ONED or NUREGULAR, add_event_ds *)
(* unless VLEN or NANPADDED, add_nonuniform_ds when ONED) fails and leaves *)
(* every group, dataset and attribute of the file as it was, whatever its  *)
(* arguments.                                                              *)
(***************************************************************************)
\* the mapping datasets of a file, of any sampling type
AllMaps(st) == {q \in DOMAIN st : IsMapPath(q) /\ IsDataset(st, q)}

\* the call failed and the file is as it was
Untouched(st, r) == r.err # "ok" /\ r.st = st

C13_UnsupportedDialectRefused ==
    /\ \A m \in AllMaps(h5), b \in AllBatches, fixed \in BOOLEAN :
           /\ dialect # VLEN => /\ Untouched(h5, add_nonuniform_vlen(h5, dialect, m, b, fixed))
                                /\ Untouched(h5, add_event_vlen(h5, dialect, m, b, fixed))
           /\ dialect # NANPADDED => /\ Untouched(h5, add_nonuniform_nan(h5, dialect, m, b, fixed))
                                     /\ Untouched(h5, add_event_nan(h5, dialect, m, b, fixed))
           /\ \A snd \in NameDicts :
                  /\ dialect # ONED => Untouched(h5, add_nonuniform_1d(h5, dialect, m, b, snd, fixed))
                  /\ dialect \notin {ONED, NUREGULAR}
                         => Untouched(h5, add_event_1d(h5, dialect, m, b, snd, fixed))
    /\ \A name \in Pops, idlist \in IdLists, e \in EmptyNameErrs :
           /\ dialect = ONED => Untouched(h5, add_nonuniform_ds(h5, tree, dialect, name, idlist, e))
           /\ dialect \notin {VLEN, NANPADDED}
                  => Untouched(h5, add_event_ds(h5, tree, dialect, name, idlist, e))
           /\ \A varname \in VarNames :
                  /\ dialect # ONED
                         => Untouched(h5, add_nonuniform_ds_1d(h5, tree, dialect, name, varname, idlist, e))
                  /\ dialect \notin {ONED, NUREGULAR}
                         => Untouched(h5, add_event_ds_1d(h5, tree, dialect, name, varname, idlist, e))

\* an operation the dialect does not support was refused in a file that holds an array
C13_Witness ==
    /\ last.err = "DialectMismatch"
    /\ last.op \in {"add_nonuniform_vlen", "add_event_vlen", "add_nonuniform_nan", "add_event_nan",
                    "add_nonuniform_1d", "add_event_1d"}
    /\ Arrays(h5) # {}

(***************************************************************************)
(* C14: add_nonuniform_regular called with a batch whose sampling times    *)
(* are not as many as the samples of each source fails, whether the array  *)
(* exists or not, and creates or changes no array and no time dataset.     *)
(***************************************************************************)
\* the batches with another number of sampling times than some source has samples
TimesMismatch == {b \in SharedTimeBatches : \E x \in DOMAIN b.data : Len(b.data[x]) # Len(b.times)}

C14_TimesMismatchRefused ==
    \A m \in Maps(h5, NONUNIFORM) : \A b \in TimesMismatch, fixed \in BOOLEAN :
        Refused(h5, add_nonuniform_regular(h5, dialect, m, b, fixed))

\* a batch with one sampling time too many was refused for an array that exists
C14_Witness ==
    /\ last = [op |-> "add_nonuniform_regular", err |-> "ShapeMismatch"]
    /\ \E p \in Arrays(h5) \cap DOMAIN hist :
           /\ hist[p].ops = {"add_nonuniform_regular"}
           /\ Width(h5[p]) > 0

(***************************************************************************)
(* C15: when a declare creates a mapping whose sources all are components  *)
(* of the model tree, with a closest common ancestor other than the root   *)
(* that has no group in the file, the declare does not raise, the mapping  *)
(* stores the declared ids, and no attribute is written: the mapping has   *)
(* no 'model' list and every other object of the file is as it was.        *)
(***************************************************************************)
LinkSkipped(st, st2, M, idlist) ==
    /\ SourceIds(st2[M]) = idlist
    /\ st2[M].attrs = NoAttrs
    /\ \A p \in DOMAIN st : Has(st2, p) /\ st2[p] = st[p]
    /\ \A p \in DOMAIN st2 : ~Has(st, p) => st2[p].attrs = NoAttrs

C15_MissingNodeSkipped ==
    [][\A M \in DOMAIN declared' \ DOMAIN declared :
           LET idlist == declared'[M]
           IN  Resolved(tree, idlist) =>
                   LET q == ClosestCommonAncestor(tree, idlist)
                   IN  q # <<>> /\ ~Has(h5, NodePath(q))
                           => last'.err = "ok" /\ LinkSkipped(h5, h5', M, idlist)]_vars

\* the first mapping was declared for a and b while /A was in the file and /A/B was not
C15_Witness ==
    /\ last.err = "ok" /\ last.op \in {"add_uniform_ds", "add_event_ds_1d"}
    /\ Has(h5, NodePath(<<"A">>)) /\ ~Has(h5, NodePath(<<"A", "B">>))
    /\ {<<"A", "B", "a">>, <<"A", "B", "b">>} \subseteq DOMAIN tree
    /\ \E M \in DOMAIN declared :
           /\ DOMAIN declared = {M}
           /\ declared[M] = <<"a", "b">>
           /\ h5[M].attrs = NoAttrs

(***************************************************************************)
(* C16 as stated: add_event_1d called with a batch (and a source_name_dict *)
(* of the batch's sources) whose set of sources is not that of the mapping *)
(* fails, creates or extends no per-source dataset, changes no row of the  *)
(* mapping and writes no attribute.                                        *)
(***************************************************************************)
\* the dicts that name a dataset for each source of the batch
DictsOf(b) == {snd \in NameDicts : DOMAIN snd = Range(b.order)}

C16_Event1dMismatchRefused ==
    \A m \in Maps1d(h5, EVENT) : \A b \in Mismatching(h5, m), fixed \in BOOLEAN : \A snd \in DictsOf(b) :
        LET r == add_event_1d(h5, dialect, m, b, snd, fixed)
        IN  /\ NothingWritten(h5, r)
            /\ Changed(h5, r.st) = {}
            /\ r.st[m] = h5[m]

(***************************************************************************)
(* C17 as stated: after every successful add_nonuniform_regular call, the  *)
(* time dataset /map/time/<population>_<field> has as many elements as the *)
(* array has columns, and they are the sampling times of the batches of    *)
(* the calls, in call order (the sampling time of column j is TimeBase+j). *)
(***************************************************************************)
C17_TimesGrowWithColumns ==
    \A p \in (Arrays(h5) \cap DOMAIN hist) \ tainted :
        hist[p].ops = {"add_nonuniform_regular"} =>
            LET t == TimePath(TsName(p[3], p[4]))
            IN  /\ IsDataset(h5, t)
                /\ t \notin tainted =>
                       /\ Len(h5[t].data) = Width(h5[p])
                       /\ h5[t].data = [j \in 1..Width(h5[p]) |-> TimeBase + j]

(***************************************************************************)
(* C18 as stated: a successful add_nonuniform_nan or add_event_nan call    *)
(* never makes a NaN-padded array narrower and keeps every cell that is    *)
(* not NaN; the new width is the greatest of the old width and, over the   *)
(* rows, the start of the row's write plus the samples supplied for it;    *)
(* whatever the batches supply, no samples or samples that are NaN too.    *)
(***************************************************************************)
\* the samples the step supplied for row i of the array at p
NewCount(p, i) ==
    LET x == RowIds(h5, p)[i] IN Len(hist'[p].data[x]) - Len(hist[p].data[x])

\* the step keeps the width and the cells of the array at p, and widens it as needed
NanStepKeeps(p) ==
    /\ Has(h5', p)
    /\ Width(h5'[p]) >= Width(h5[p])
    /\ \A i \in DOMAIN h5[p].data : \A j \in DOMAIN h5[p].data[i] :
           h5[p].data[i][j] # NaN => j <= Width(h5'[p]) /\ h5'[p].data[i][j] = h5[p].data[i][j]
    /\ Width(h5'[p]) = Max({Width(h5[p])} \cup
                           {FirstNaN(h5[p].data[i]) + NewCount(p, i) : i \in DOMAIN h5[p].data})

C18_NanArrayNeverShrinks ==
    [][last'.err = "ok" => \A p \in (Arrays(h5) \cap DOMAIN hist) \ tainted : NanStepKeeps(p)]_vars

\* the same for the arrays whose batches, that of the step included, supplied no NaN
C18_KeptWithoutNaN ==
    [][last'.err = "ok" =>
           \A p \in (Arrays(h5) \cap DOMAIN hist) \ tainted :
               (\A x \in DOMAIN hist'[p].data : NaN \notin Range(hist'[p].data[x])) => NanStepKeeps(p)]_vars

(***************************************************************************)
(* C19 as stated: an append call that fails because the sources of the     *)
(* batch are not those of the mapping leaves the file as it was before the *)
(* call: no new group (the population group under /data/<namespace>        *)
(* included), no new dataset, no new or changed attribute.                 *)
(***************************************************************************)
\* the call failed on the comparison of the sources, and the file is as before
MismatchUntouched(st, r) == r.err = "SourceMismatch" => r.st = st

C19_MismatchLeavesFileAsItWas ==
    /\ \A m \in Maps(h5, UNIFORM) : \A b \in Mismatching(h5, m), fixed \in BOOLEAN :
           MismatchUntouched(h5, add_uniform_data(h5, dialect, m, b, 0, fixed))
    /\ \A m \in Maps(h5, STATIC) : \A b \in Mismatching(h5, m), fixed \in BOOLEAN :
           MismatchUntouched(h5, add_static_data(h5, dialect, m, b, fixed))
    /\ \A m \in Maps(h5, NONUNIFORM) : \A b \in Mismatching(h5, m), fixed \in BOOLEAN :
           /\ MismatchUntouched(h5, add_nonuniform_regular(h5, dialect, m, b, fixed))
           /\ MismatchUntouched(h5, add_nonuniform_vlen(h5, dialect, m, b, fixed))
           /\ MismatchUntouched(h5, add_nonuniform_nan(h5, dialect, m, b, fixed))
    /\ \A m \in Maps(h5, EVENT) : \A b \in Mismatching(h5, m), fixed \in BOOLEAN :
           /\ MismatchUntouched(h5, add_event_vlen(h5, dialect, m, b, fixed))
           /\ MismatchUntouched(h5, add_event_nan(h5, dialect, m, b, fixed))
    /\ \A m \in Maps1d(h5, NONUNIFORM) : \A b \in Mismatching(h5, m), snd \in NameDicts, fixed \in BOOLEAN :
           MismatchUntouched(h5, add_nonuniform_1d(h5, dialect, m, b, snd, fixed))
    /\ \A m \in Maps1d(h5, EVENT) : \A b \in Mismatching(h5, m), snd \in NameDicts, fixed \in BOOLEAN :
           MismatchUntouched(h5, add_event_1d(h5, dialect, m, b, snd, fixed))

\* the same once the population group of the mapping exists
C19_UntouchedOnceGroupExists ==
    /\ \A m \in Maps(h5, UNIFORM) : \A b \in Mismatching(h5, m), fixed \in BOOLEAN :
           Has(h5, PopGroup(UNIFORM, m[3])) => MismatchUntouched(h5, add_uniform_data(h5, dialect, m, b, 0, fixed))
    /\ \A m \in Maps(h5, STATIC) : \A b \in Mismatching(h5, m), fixed \in BOOLEAN :
           Has(h5, PopGroup(STATIC, m[3])) => MismatchUntouched(h5, add_static_data(h5, dialect, m, b, fixed))
    /\ \A m \in Maps(h5, NONUNIFORM) : \A b \in Mismatching(h5, m), fixed \in BOOLEAN :
           Has(h5, PopGroup(NONUNIFORM, m[3])) =>
               /\ MismatchUntouched(h5, add_nonuniform_regular(h5, dialect, m, b, fixed))
               /\ MismatchUntouched(h5, add_nonuniform_vlen(h5, dialect, m, b, fixed))
               /\ MismatchUntouched(h5, add_nonuniform_nan(h5, dialect, m, b, fixed))
    /\ \A m \in Maps(h5, EVENT) : \A b \in Mismatching(h5, m), fixed \in BOOLEAN :
           Has(h5, PopGroup(EVENT, m[3])) =>
               /\ MismatchUntouched(h5, add_event_vlen(h5, dialect, m, b, fixed))
               /\ MismatchUntouched(h5, add_event_nan(h5, dialect, m, b, fixed))
    /\ \A m \in Maps1d(h5, NONUNIFORM) : \A b \in Mismatching(h5, m), snd \in NameDicts, fixed \in BOOLEAN :
           Has(h5, PopGroup(NONUNIFORM, m[3])) =>
               MismatchUntouched(h5, add_nonuniform_1d(h5, dialect, m, b, snd, fixed))
    /\ \A m \in Maps1d(h5, EVENT) : \A b \in Mismatching(h5, m), snd \in NameDicts, fixed \in BOOLEAN :
           Has(h5, PopGroup(EVENT, m[3])) =>
               MismatchUntouched(h5, add_event_1d(h5, dialect, m, b, snd, fixed))

(***************************************************************************)
(* C20 as stated: a mapping with dataset slots holds, after its declare,   *)
(* the ids of the list with a null reference each; after the first         *)
(* successful add_nonuniform_1d or add_event_1d call on it, whatever the   *)
(* source_name_dict, every row holds the id it held and a reference to the *)
(* dataset the dict names for that source; and no successful call changes  *)
(* the id of a row or sets a reference back to null.                       *)
(***************************************************************************)
RowsNull(st, m) == \A i \in DOMAIN st[m].data : st[m].data[i].data = NullRef

\* the rows a successful declare leaves
DeclaredNull(r, m, idlist) ==
    r.err = "ok" => r.st[m].data = [i \in DOMAIN idlist |-> [source |-> idlist[i], data |-> NullRef]]

\* the rows a successful append leaves
RowsRefer(st, r, m, b, snd) ==
    r.err = "ok" =>
        \A i \in DOMAIN st[m].data :
            LET row == r.st[m].data[i]
            IN  /\ row.source = st[m].data[i].source
                /\ st[m].data[i].data # NullRef => row.data # NullRef
                /\ RowsNull(st, m) => /\ row.data = DsetPath(m[2], m[3], b.name, snd[row.source])
                                      /\ IsDataset(r.st, row.data)

Slots1dDeclaredNull ==
    \A name \in Pops, varname \in VarNames, idlist \in IdLists, e \in EmptyNameErrs :
        /\ DeclaredNull(add_nonuniform_ds_1d(h5, tree, dialect, name, varname, idlist, e),
                        MapPath1d(NONUNIFORM, name, varname), idlist)
        /\ DeclaredNull(add_event_ds_1d(h5, tree, dialect, name, varname, idlist, e),
                        MapPath1d(EVENT, name, varname), idlist)

C20_RowsReferToDatasets ==
    /\ Slots1dDeclaredNull
    /\ \A m \in Maps1d(h5, NONUNIFORM) : \A b \in TimedBatches, snd \in NameDicts, fixed \in BOOLEAN :
           RowsRefer(h5, add_nonuniform_1d(h5, dialect, m, b, snd, fixed), m, b, snd)
    /\ \A m \in Maps1d(h5, EVENT) : \A b \in PlainBatches, snd \in NameDicts, fixed \in BOOLEAN :
           RowsRefer(h5, add_event_1d(h5, dialect, m, b, snd, fixed), m, b, snd)

\* the same for the dicts that name a dataset of its own for every source
OneToOne(snd) == \A x, y \in DOMAIN snd : snd[x] = snd[y] => x = y

C20_ReferWithOwnDatasets ==
    /\ Slots1dDeclaredNull
    /\ \A m \in Maps1d(h5, NONUNIFORM) : \A b \in TimedBatches, snd \in NameDicts, fixed \in BOOLEAN :
           OneToOne(snd) => RowsRefer(h5, add_nonuniform_1d(h5, dialect, m, b, snd, fixed), m, b, snd)
    /\ \A m \in Maps1d(h5, EVENT) : \A b \in PlainBatches, snd \in NameDicts, fixed \in BOOLEAN :
           OneToOne(snd) => RowsRefer(h5, add_event_1d(h5, dialect, m, b, snd, fixed), m, b, snd)

(***************************************************************************)
(* C21 as stated: every successful add_nonuniform_1d call leaves, for each *)
(* source, the dataset named for it holding what it held (nothing when the *)
(* call creates it) followed by the data chunk of the source, its time     *)
(* vector holding what it held followed by the time chunk, both of one     *)
(* length; so each dataset is the chunks of its source in call order, and  *)
(* the append for one source changes the dataset of no other.              *)
(***************************************************************************)
Held(st, path) == IF Has(st, path) THEN st[path].data ELSE <<>>

\* the dataset and the time vector of source x after the call: the chunks of x appended
OwnChunkAppended(st, r, m, b, snd, x) ==
    LET dpath == DsetPath(NONUNIFORM, m[3], b.name, snd[x])
        tpath == TimePath(TsName1d(m[3], b.name, snd[x]))
    IN  /\ IsDataset(r.st, dpath) /\ IsDataset(r.st, tpath)
        /\ r.st[dpath].data = Held(st, dpath) \o b.data[x]
        /\ r.st[tpath].data = Held(st, tpath) \o b.time[x]
        /\ Len(r.st[dpath].data) = Len(r.st[tpath].data)
        /\ TimeScaleOf(r.st[dpath]) = tpath

Appended1d(st, r, m, b, snd) ==
    r.err = "ok" => \A x \in Range(SourceIds(st[m])) : OwnChunkAppended(st, r, m, b, snd, x)

C21_SourceDatasetsConcatenate ==
    \A m \in Maps1d(h5, NONUNIFORM) : \A b \in TimedBatches, snd \in NameDicts, fixed \in BOOLEAN :
        Appended1d(h5, add_nonuniform_1d(h5, dialect, m, b, snd, fixed), m, b, snd)

\* the same for the dicts that name a dataset of its own for every source
C21_ConcatenateWithOwnDatasets ==
    \A m \in Maps1d(h5, NONUNIFORM) : \A b \in TimedBatches, snd \in NameDicts, fixed \in BOOLEAN :
        OneToOne(snd) => Appended1d(h5, add_nonuniform_1d(h5, dialect, m, b, snd, fixed), m, b, snd)

\* with such dicts, the datasets hold the chunks the successful calls supplied, in call order
C21_DatasetsHoldHistory ==
    \A d \in Datasets1d(h5) \ tainted :
        LET p == Take(d, 4)
            x == h5[d].attrs.source
        IN  (d[2] = NONUNIFORM /\ p \in DOMAIN hist /\ hist[p].ops = {"add_nonuniform_1d"}) =>
                /\ h5[d].data = hist[p].data[x]
                /\ TimeScaleOf(h5[d]) \notin tainted => h5[TimeScaleOf(h5[d])].data = hist[p].time[x]

(***************************************************************************)
(* C22: a call of an append operation on a file that holds the array       *)
(* leaves the attributes of every stored dataset (field, unit, timeunit,   *)
(* dt, tstart of the arrays, unit of the time axes) as they were, whatever *)
(* dt, unit and time unit the batch carries, none included, and whatever   *)
(* tstart is given; and no call on an existing array fails for metadata    *)
(* the batch lacks.                                                        *)
(***************************************************************************)
\* metadata other than that of the creating batches
OtherMeta == [unit |-> "V", tunit |-> "s", dt |-> 2]

AnyMetaBatches == BatchesOf(TaggedChunks, {Good, NoUnit, NoTunit, NoDt, OtherMeta}, FALSE, {0, 1})

TStarts == {0, 1}

\* the call keeps the attributes of the stored datasets, and does not ask an existing
\* array for metadata
AttrsKept(st, r, path) ==
    /\ \A p \in Stored(st) : Has(r.st, p) /\ r.st[p].attrs = st[p].attrs
    /\ IsDataset(st, path) => r.err # "MissingMetadata"

C22_AppendKeepsAttributes ==
    /\ \A m \in Maps(h5, UNIFORM) : \A b \in AnyMetaBatches, tstart \in TStarts, fixed \in BOOLEAN :
           AttrsKept(h5, add_uniform_data(h5, dialect, m, b, tstart, fixed), DataPath(UNIFORM, m[3], b.name))
    /\ \A m \in Maps(h5, STATIC) : \A b \in AnyMetaBatches, fixed \in BOOLEAN :
           AttrsKept(h5, add_static_data(h5, dialect, m, b, fixed), DataPath(STATIC, m[3], b.name))
    /\ \A m \in Maps(h5, NONUNIFORM) : \A b \in AnyMetaBatches, fixed \in BOOLEAN :
           LET path == DataPath(NONUNIFORM, m[3], b.name)
           IN  /\ AttrsKept(h5, add_nonuniform_regular(h5, dialect, m, b, fixed), path)
               /\ AttrsKept(h5, add_nonuniform_vlen(h5, dialect, m, b, fixed), path)
               /\ AttrsKept(h5, add_nonuniform_nan(h5, dialect, m, b, fixed), path)
    /\ \A m \in Maps(h5, EVENT) : \A b \in AnyMetaBatches, fixed \in BOOLEAN :
           LET path == DataPath(EVENT, m[3], b.name)
           IN  /\ AttrsKept(h5, add_event_vlen(h5, dialect, m, b, fixed), path)
               /\ AttrsKept(h5, add_event_nan(h5, dialect, m, b, fixed), path)

\* an array that takes the columns of a batch without unit, with another dt and tstart
C22_Witness ==
    \E m \in Maps(h5, UNIFORM) : \E b \in AnyMetaBatches :
        LET path == DataPath(UNIFORM, m[3], b.name)
            r == add_uniform_data(h5, dialect, m, b, 1, FALSE)
        IN  /\ IsDataset(h5, path) /\ path \notin tainted
            /\ b.unit = None
            /\ r.err = "ok"
            /\ Width(r.st[path]) > Width(h5[path])
            /\ r.st[path].attrs.unit = "mV" /\ r.st[path].attrs.tstart = 0

(***************************************************************************)
(* C23: every step keeps what the 'map' list of each model-tree node and   *)
(* the 'model' list of each mapping held as the beginning of what they     *)
(* hold after it; a declare that links its mapping adds the reference to   *)
(* the mapping at the end of the 'map' list of the closest common          *)
(* ancestor, the reference to that node at the end of the (empty) 'model'  *)
(* list of the mapping, and nothing to any other list: the 'map' list of a *)
(* node holds the mappings linked to it in the order of their declares.    *)
(***************************************************************************)
ListOf(st, p, name) == IF name \in DOMAIN st[p].attrs THEN st[p].attrs[name] ELSE <<>>

ListsKept(st, st2) ==
    /\ \A n \in Nodes(st) : Has(st2, n) /\ IsPrefix(ListOf(st, n, "map"), ListOf(st2, n, "map"))
    /\ \A M \in DOMAIN declared : Has(st2, M) /\ IsPrefix(ListOf(st, M, "model"), ListOf(st2, M, "model"))

\* one reference more at the end of the two lists, and the other lists as they were
OneRefMore(st, st2, M, node) ==
    /\ ListOf(st2, node, "map") = Append(ListOf(st, node, "map"), M)
    /\ ListOf(st2, M, "model") = <<node>>
    /\ \A n \in Nodes(st2) \ {node} : ListOf(st2, n, "map") = IF Has(st, n) THEN ListOf(st, n, "map") ELSE <<>>
    /\ \A M2 \in DOMAIN declared : ListOf(st2, M2, "model") = ListOf(st, M2, "model")

C23_ListsAppendOnly ==
    [][/\ ListsKept(h5, h5')
       /\ \A M \in DOMAIN declared' \ DOMAIN declared :
              LET idlist == declared'[M]
              IN  Resolved(tree, idlist) =>
                      LET q == ClosestCommonAncestor(tree, idlist)
                      IN  q # <<>> /\ Has(h5, NodePath(q)) => OneRefMore(h5, h5', M, NodePath(q))]_vars

\* two mappings of the component a alone, both linked to its node
C23_Witness ==
    LET node == NodePath(<<"A", "B", "a">>)
    IN  /\ Has(h5, node)
        /\ Len(ListOf(h5, node, "map")) = 2
        /\ Cardinality(Range(ListOf(h5, node, "map"))) = 2
        /\ \A M \in Range(ListOf(h5, node, "map")) : ListOf(h5, M, "model") = <<node>>
        /\ last.op \in {"add_uniform_ds", "add_event_ds_1d"} /\ last.err = "ok"

(***************************************************************************)
(* C24 as stated: _link_map_model run once more on a mapping that is       *)
(* linked, with the model tree as it is, leaves the reference to the       *)
(* mapping twice in the 'map' list of its node and the reference to the    *)
(* node twice in the 'model' list of the mapping.                          *)
(***************************************************************************)
Count(seq, x) == Cardinality({i \in DOMAIN seq : seq[i] = x})

Linked(st) == {M \in DOMAIN declared : ListOf(st, M, "model") # <<>>}

\* the node's list after the second link
MapListDoubled(st, r, M) ==
    LET node == ListOf(st, M, "model")[1]
    IN  r.err = "ok" /\ Count(ListOf(r.st, node, "map"), M) = 2

ModelListDoubled(st, r, M) ==
    LET node == ListOf(st, M, "model")[1]
    IN  r.err = "ok" /\ ListOf(r.st, M, "model") = <<node, node>>

C24_RelinkDuplicates ==
    \A M \in Linked(h5) : \A e \in EmptyNameErrs :
        /\ MapListDoubled(h5, _link_map_model(h5, tree, M, e), M)
        /\ ModelListDoubled(h5, _link_map_model(h5, tree, M, e), M)

\* the half of it on the node's list, and what the mapping's list is after the second link
C24_RelinkDoublesMapOnly ==
    \A M \in Linked(h5) : \A e \in EmptyNameErrs :
        LET r == _link_map_model(h5, tree, M, e)
        IN  /\ MapListDoubled(h5, r, M)
            /\ ListOf(r.st, M, "model") = ListOf(h5, M, "model")

(***************************************************************************)
(* C25 as stated: an add_nonuniform_vlen, add_nonuniform_nan,              *)
(* add_event_vlen or add_event_nan call on an existing array that fails in *)
(* its loop over the rows, at row k, leaves the rows before k holding      *)
(* their old samples followed by the new ones, and row k and the rows      *)
(* after it holding their old samples only.                                *)
(***************************************************************************)
\* batches in which the sampling times of one source may be one more or less than its samples
SkewedBatches == BatchesOf(TaggedChunks, {Good}, TRUE, {0})

\* what the loop over the rows raises
RowErrs == {"TypeError", "ValueError"}

\* the samples of a row: the cells before the padding
SamplesOf(row) == Take(row, FirstNaN(row))

\* row i of the array after the call: the old samples, with the chunk of the batch or not
RowIs(st, r, path, ids, b, i, written) ==
    SamplesOf(RowsOf(r.st[path])[i]) =
        SamplesOf(RowsOf(st[path])[i]) \o (IF written THEN b.data[ids[i]] ELSE <<>>)

\* the call failed in its loop; some row k splits the rows written from the rows kept
StoppedAtRow(st, r, path, ids, b) ==
    r.err \in RowErrs =>
        \E k \in DOMAIN ids : \A i \in DOMAIN ids : RowIs(st, r, path, ids, b, i, i < k)

\* the dataset is in the layout of the dialect of the writer, of variable-length elements
\* or 2-D and padded with NaN, and no operation of another layout has written the array
RowOps == {"add_nonuniform_vlen", "add_nonuniform_nan", "add_event_vlen", "add_event_nan"}

InLayout(st, p) ==
    /\ IsDataset(st, p)
    /\ p[1] = "data" => p \in DOMAIN hist /\ hist[p].ops \subseteq RowOps
    /\ \/ dialect = VLEN /\ st[p].vlen
       \/ dialect = NANPADDED /\ st[p].ndim = 2 /\ st[p].fill = NaN

C25_FailedRowAndLaterKeepOld ==
    /\ \A m \in Maps(h5, NONUNIFORM) : \A b \in SkewedBatches :
           LET path == DataPath(NONUNIFORM, m[3], b.name)
               tpath == TimePath(TsName(m[3], b.name))
               ids == SourceIds(h5[m])
               r == IF dialect = VLEN THEN add_nonuniform_vlen(h5, dialect, m, b, FALSE)
                    ELSE add_nonuniform_nan(h5, dialect, m, b, FALSE)
           IN  (InLayout(h5, path) /\ InLayout(h5, tpath) /\ Range(b.order) = Range(ids)) =>
                   StoppedAtRow(h5, r, path, ids, b)
    /\ \A m \in Maps(h5, EVENT) : \A b \in PlainBatches :
           LET path == DataPath(EVENT, m[3], b.name)
               ids == SourceIds(h5[m])
               r == IF dialect = VLEN THEN add_event_vlen(h5, dialect, m, b, FALSE)
                    ELSE add_event_nan(h5, dialect, m, b, FALSE)
           IN  (InLayout(h5, path) /\ Range(b.order) = Range(ids)) => StoppedAtRow(h5, r, path, ids, b)

\* the same but for row k itself, which holds its new samples or not
StoppedAboutRow(st, r, path, ids, b) ==
    r.err \in RowErrs =>
        \E k \in DOMAIN ids : \A i \in DOMAIN ids :
            \/ i < k /\ RowIs(st, r, path, ids, b, i, TRUE)
            \/ i = k /\ (RowIs(st, r, path, ids, b, i, TRUE) \/ RowIs(st, r, path, ids, b, i, FALSE))
            \/ i > k /\ RowIs(st, r, path, ids, b, i, FALSE)

C25_LaterRowsKeepOld ==
    /\ \A m \in Maps(h5, NONUNIFORM) : \A b \in SkewedBatches :
           LET path == DataPath(NONUNIFORM, m[3], b.name)
               tpath == TimePath(TsName(m[3], b.name))
               ids == SourceIds(h5[m])
               r == IF dialect = VLEN THEN add_nonuniform_vlen(h5, dialect, m, b, FALSE)
                    ELSE add_nonuniform_nan(h5, dialect, m, b, FALSE)
           IN  (InLayout(h5, path) /\ InLayout(h5, tpath) /\ Range(b.order) = Range(ids)) =>
                   StoppedAboutRow(h5, r, path, ids, b)
    /\ \A m \in Maps(h5, EVENT) : \A b \in PlainBatches :
           LET path == DataPath(EVENT, m[3], b.name)
               ids == SourceIds(h5[m])
               r == IF dialect = VLEN THEN add_event_vlen(h5, dialect, m, b, FALSE)
                    ELSE add_event_nan(h5, dialect, m, b, FALSE)
           IN  (InLayout(h5, path) /\ Range(b.order) = Range(ids)) => StoppedAboutRow(h5, r, path, ids, b)

(***************************************************************************)
(* C26 as stated: a declare that raises, of any of the six variants, adds  *)
(* no mapping dataset to the file, so that the same declare can be made    *)
(* again; in particular when the model tree holds components and an id of  *)
(* the list is the uid of none of them.                                    *)
(***************************************************************************)
\* the call failed and the file holds the mapping datasets it held
NoMappingLeft(st, r) ==
    r.err # "ok" => \A p \in DOMAIN r.st : (IsMapPath(p) /\ IsDataset(r.st, p)) => Has(st, p)

DeclaresLeaveNoMapping(L) ==
    \A name \in LinkPops, idlist \in L, e \in EmptyNameErrs :
        /\ NoMappingLeft(h5, add_uniform_ds(h5, tree, dialect, name, idlist, e))
        /\ NoMappingLeft(h5, add_nonuniform_ds(h5, tree, dialect, name, idlist, e))
        /\ NoMappingLeft(h5, add_event_ds(h5, tree, dialect, name, idlist, e))
        /\ NoMappingLeft(h5, add_static_ds(h5, tree, dialect, name, idlist, e))
        /\ \A varname \in VarNames :
               /\ NoMappingLeft(h5, add_nonuniform_ds_1d(h5, tree, dialect, name, varname, idlist, e))
               /\ NoMappingLeft(h5, add_event_ds_1d(h5, tree, dialect, name, varname, idlist, e))

C26_DeclareAllOrNothing == DeclaresLeaveNoMapping(LinkIdLists \cup {<<>>})

\* the same for the declares whose ids are all uids of components of the tree, or made
\* while the tree holds no component, when the root of the tree is looked up without error
C26_AllOrNothingWhenResolved ==
    \A name \in LinkPops, idlist \in LinkIdLists \cup {<<>>} :
        (Resolved(tree, idlist) \/ DOMAIN tree = {}) =>
            /\ NoMappingLeft(h5, add_uniform_ds(h5, tree, dialect, name, idlist, "KeyError"))
            /\ NoMappingLeft(h5, add_static_ds(h5, tree, dialect, name, idlist, "KeyError"))
            /\ \A varname \in VarNames :
                   NoMappingLeft(h5, add_event_ds_1d(h5, tree, dialect, name, varname, idlist, "KeyError"))

(***************************************************************************)
(* C27 as stated: the names of the time axes, <population>_<field> for an  *)
(* array and <population>_<field>_<dataset name> for a per-source dataset, *)
(* are different for different arrays and per-source datasets of the       *)
(* nonuniform namespace, and a call that appends to one array leaves the   *)
(* time axis of every other array as it was.                               *)
(***************************************************************************)
\* names of populations, fields and per-source datasets, some with the separator in them
PopNames == {"q", "q_f"}

FieldNames == {"f", "g", "f_g"}

DsetNames == {"g", "d1"}

AxisPairs == PopNames \X FieldNames

AxisTriples == PopNames \X FieldNames \X DsetNames

DistinctAxisNames(Ps, Ts) ==
    /\ \A x, y \in Ps : x # y => TsName(x[1], x[2]) # TsName(y[1], y[2])
    /\ \A x, y \in Ts : x # y => TsName1d(x[1], x[2], x[3]) # TsName1d(y[1], y[2], y[3])
    /\ \A x \in Ps, y \in Ts : TsName(x[1], x[2]) # TsName1d(y[1], y[2], y[3])

Named(b, name) == [b EXCEPT !.name = name]

\* two populations declared on the file and an array written for each, field1 of pop1 and
\* then, in two calls, field2 of pop2: the time axis of the first array after the calls
\* on the second is what it was before them
OwnAxisKept(st, pop1, field1, pop2, field2, idlist, b) ==
    LET d1 == add_nonuniform_ds(st, tree, dialect, pop1, idlist, "KeyError")
        d2 == add_nonuniform_ds(d1.st, tree, dialect, pop2, idlist, "KeyError")
        w1 == add_nonuniform_vlen(d2.st, dialect, MapPath(NONUNIFORM, pop1), Named(b, field1), FALSE)
        w2 == add_nonuniform_vlen(w1.st, dialect, MapPath(NONUNIFORM, pop2), Named(b, field2), FALSE)
        w3 == add_nonuniform_vlen(w2.st, dialect, MapPath(NONUNIFORM, pop2), Named(b, field2), FALSE)
        axis == TimePath(TsName(pop1, field1))
    IN  (d1.err = "ok" /\ d2.err = "ok" /\ w1.err = "ok") =>
            /\ w2.st[axis] = w1.st[axis]
            /\ w3.st[axis] = w1.st[axis]

AxesKept(Ps) ==
    \A x, y \in Ps : \A idlist \in Orders : \A b \in TimedBatches :
        (x # y /\ x[1] # y[1] /\ Range(b.order) = Range(idlist) /\ OnlyType(h5, NONUNIFORM)) =>
            OwnAxisKept(h5, x[1], x[2], y[1], y[2], idlist, b)

C27_TimeAxesNeverShared == DistinctAxisNames(AxisPairs, AxisTriples) /\ AxesKept(AxisPairs)

\* the same for names that do not hold the separator
PlainPairs == {"q", "r"} \X {"f", "g"}

PlainTriples == {"q", "r"} \X {"f", "g"} \X {"g", "d1"}

C27_DistinctWithPlainNames == DistinctAxisNames(PlainPairs, PlainTriples) /\ AxesKept(PlainPairs)

(***************************************************************************)
(* C28 as stated: add_nonuniform_1d, add_nonuniform_vlen and               *)
(* add_nonuniform_nan, called with a batch in which the data chunk and the *)
(* time chunk of some source differ in length, fail and create or change   *)
(* no stored dataset; and after every call of the two array operations,    *)
(* failed or not, every row of the array holds as many samples as its row  *)
(* of the time dataset holds times.                                        *)
(***************************************************************************)
Uneven(b) == \E x \in DOMAIN b.data : Len(b.data[x]) # Len(b.time[x])

\* as many samples as times in every row, for an array that has its time dataset
LengthsAgree(st, path, tpath) ==
    (IsDataset(st, path) /\ IsDataset(st, tpath)) =>
        \A i \in DOMAIN RowsOf(st[path]) :
            Len(SamplesOf(RowsOf(st[path])[i])) = Len(SamplesOf(RowsOf(st[tpath])[i]))

\* the array is not in the file, or is in the layout of the dialect with its time dataset
OwnOrNone(st, path, tpath) ==
    \/ ~Has(st, path) /\ ~Has(st, tpath)
    \/ InLayout(st, path) /\ InLayout(st, tpath) /\ path \notin tainted /\ tpath \notin tainted

RowwiseTimesAgree(B) ==
    \A m \in Maps(h5, NONUNIFORM) : \A b \in B, fixed \in BOOLEAN :
        LET path == DataPath(NONUNIFORM, m[3], b.name)
            tpath == TimePath(TsName(m[3], b.name))
            rv == add_nonuniform_vlen(h5, dialect, m, b, fixed)
            rn == add_nonuniform_nan(h5, dialect, m, b, fixed)
        IN  (OwnOrNone(h5, path, tpath) /\ Range(b.order) = Range(SourceIds(h5[m]))) =>
                /\ LengthsAgree(rv.st, path, tpath)
                /\ LengthsAgree(rn.st, path, tpath)
                /\ Uneven(b) => Refused(h5, rv) /\ Refused(h5, rn)

PerSourceTimesAgree(B) ==
    \A m \in Maps1d(h5, NONUNIFORM) : \A b \in B, fixed \in BOOLEAN :
        (Uneven(b) /\ Range(b.order) = Range(SourceIds(h5[m]))) =>
            Refused(h5, add_nonuniform_1d(h5, dialect, m, b, [x \in Range(b.order) |->
                                              IF x = "a" THEN "d1" ELSE "d2"], fixed))

C28_TimesMatchSamples == RowwiseTimesAgree(SkewedBatches) /\ PerSourceTimesAgree(SkewedBatches)

\* the same for the batches whose chunks of data and of times are of one length per source
C28_EvenBatchesAgree == RowwiseTimesAgree(TimedBatches)

(***************************************************************************)
(* C29: a mapping is linked by its declare only, against the model tree of *)
(* that moment.  A declare made while the tree holds no component succeeds *)
(* as it would without the link, leaves the mapping without 'model' list   *)
(* and writes nothing else; no later step, add_modeltree included, changes *)
(* the 'model' list of a mapping that is in the file or adds it to the     *)
(* 'map' list of a node; a declare made after add_modeltree links its      *)
(* mapping to the closest common ancestor in the tree as it then is.       *)
(***************************************************************************)
\* the mappings a node refers to
MapRefs(st, n) == IF Has(st, n) THEN Range(ListOf(st, n, "map")) ELSE {}

C29_LinkedAtDeclareOnly ==
    [][/\ \A M \in DOMAIN declared :
              /\ Has(h5', M) /\ ListOf(h5', M, "model") = ListOf(h5, M, "model")
              /\ \A n \in Nodes(h5') : M \in MapRefs(h5', n) <=> M \in MapRefs(h5, n)
       /\ \A M \in DOMAIN declared' \ DOMAIN declared :
              /\ DOMAIN tree = {} => last'.err = "ok" /\ LinkSkipped(h5, h5', M, declared'[M])
              /\ (DOMAIN tree # {} /\ Resolved(tree, declared'[M])) =>
                     LET q == ClosestCommonAncestor(tree, declared'[M])
                     IN  (q # <<>> /\ Has(h5, NodePath(q))) =>
                             /\ ListOf(h5', M, "model") = <<NodePath(q)>>
                             /\ M \in MapRefs(h5', NodePath(q))]_vars

\* a mapping of the component a without link, though the node of a is in the file, and a
\* second mapping of a, declared when the node was there, linked to it
C29_Witness ==
    LET node == NodePath(<<"A", "B", "a">>)
    IN  /\ Has(h5, node)
        /\ \E M1, M2 \in DOMAIN declared :
               /\ declared[M1] = <<"a">> /\ declared[M2] = <<"a">>
               /\ h5[M1].attrs = NoAttrs
               /\ ListOf(h5, M2, "model") = <<node>>
               /\ ListOf(h5, node, "map") = <<M2>>

(***************************************************************************)
(* C30: when two add_uniform_data calls on one array have both returned    *)
(* without error and neither made an access to the file between the read   *)
(* of the column count and the write of the other, the array holds, after  *)
(* the columns it had, the columns of one batch and then those of the      *)
(* other, in full.  When the accesses of the two calls interleave, a state *)
(* is reached in which it does not: columns of a batch are overwritten.    *)
(***************************************************************************)
BothReturned == \A t \in Threads : calls[t].pc = "done" /\ calls[t].err = "ok"

Serial == \A t \in Threads : ~calls[t].overlapped

\* the rows of the array: what it held, the batch of thread t, then that of thread u
SideBySide(t, u) ==
    LET ids == SourceIds(h5[RaceMap])
    IN  \A i \in DOMAIN ids :
            h5[RacePath].data[i] = hist[RacePath].data[ids[i]] \o calls[t].b.data[ids[i]]
                                       \o calls[u].b.data[ids[i]]

HoldsBoth == SideBySide(1, 2) \/ SideBySide(2, 1)

C30_SerialAppendsHoldBoth == (BothReturned /\ Serial) => HoldsBoth

\* both calls read the same column count and returned without error, each with at least
\* one column, and the array does not hold both batches
C30_Witness ==
    /\ BothReturned
    /\ ~Serial
    /\ calls[1].oldcolcount = calls[2].oldcolcount
    /\ \A t \in Threads : \A x \in DOMAIN calls[t].b.data : Len(calls[t].b.data[x]) >= 1
    /\ ~HoldsBoth

\* two calls, each with at least one column, that returned one after the other
C30_SerialWitness ==
    /\ BothReturned
    /\ Serial
    /\ \A t \in Threads : \A x \in DOMAIN calls[t].b.data : Len(calls[t].b.data[x]) >= 1
    /\ HoldsBoth

====
